---- MODULE Spec2Model ----
(***************************************************************************)
(* Model of the arango-etl ingestion pipeline: the tracker loop            *)
(* (src/tracker.rs) and the rehydrate command (src/cli/rehydrate.rs) that  *)
(* drive process(), the file scheduler (src/handler/arangodb_handler.rs)   *)
(* and the checkpoint operations on the files collection                   *)
(* (src/handler/arangodb.rs).                                              *)
(***************************************************************************)
EXTENDS Integers, Sequences, FiniteSets, Bags, TLC

\* ---------------------------------------------------------------- bounds
NumFiles == 3       \* files in the feed, keys 1..NumFiles
NumReports == 1     \* reports carried by each file but the first, which carries one more
ExtraTicks == 1     \* ticks the tracker makes past the timestamp of the last file
MaxPeerOps == 1     \* file passes a second pipeline instance makes
MaxPicks == 2       \* reports the report tasks take from the file streams
MaxApplied == 2     \* reports applied one after another
MaxNow == 1         \* the greatest reading of the clocks
MaxCalls == 2       \* calls of Edge::new compared with one another
IntBits == 3        \* width of the signed integers that stand for i64
NumStreams == 2     \* files whose streams are followed chunk by chunk
StreamLen == 7      \* reports in each of these streams
MaxMsgs == 3        \* entries of the stream of the JoinSet-based process()
MaxListed == 2      \* files list_all returns to the JoinSet-based process()

\* ------------------------------------------- settings (configured values)
max_retries == 0                \* Settings.max_retries
max_concurrent_files == 3       \* Settings.max_concurrent_files
max_processing_capacity == 2    \* Settings.max_processing_capacity
file_chunk_size == 2            \* Settings.file_chunk_size
interval == 1                   \* Settings.tracker.interval, in ticks of the clock
max_ingest == 1                 \* Settings.max_ingest (JoinSet-based handler)

Files == 1 .. NumFiles

\* the number of reports the stream of file f yields
ReportCount(f) == IF f = 1 THEN NumReports + 1 ELSE NumReports

\* FileInfo.timestamp of the file with key f: two files share each timestamp
Timestamp(f) == (f + 1) \div 2

\* the tracker stops ticking once after_utc + interval exceeds MaxTs
MaxTs == Timestamp(NumFiles) + ExtraTicks

VARIABLES
    after_utc,      \* Tracker.after_utc
    pc,             \* position of the tracker task inside process()
    after_ts,       \* process(): argument after_ts of the current (last) run
    list_res,       \* process(): outcome of list_all ("none" before the first run)
    listing,        \* process(): the files list_all returned
    lookup,         \* exclude_done_files(): outcome of get_done_file_keys
    done_keys,      \* exclude_done_files(): keys returned by get_done_file_keys
    file_infos,     \* process(): file_infos after exclude_done_files
    max_ts,         \* process(): max_ts
    fpc,            \* process_files(): position of the task of each file
    ridx,           \* process_file(): number of reports of the file consumed
    failed_files,   \* process_files(): the failed_files list (as a bag)
    read_err,       \* failed files whose get_file_retries call returned an error
    kept,           \* process(): failed files left by the retry filter
    result,         \* what the last process() call returned
    files,          \* the files collection of the store
    pop_err,        \* files one of whose reports got Err from populate_collections
    log,            \* store operations issued by the current run
    peer_ops,       \* file passes made so far by a second pipeline instance
    driver,         \* the command that drives process(): "tracker" or "rehydrate"
    before_ts,      \* process(): argument before_ts of the current (last) run
    beacons,        \* the beacons collection of the store, by poc_id
    hotspots,       \* the hotspots collection of the store, by public key
    edges,          \* the witnesses (edge) collection of the store, by edge key
    tokens,         \* the poc_id stream of the notification sink (as a bag)
    tpc,            \* populate_collections: position of each report task
    trep,           \* process_file: the decoded report each task holds
    twi,            \* populate_collections: index of the witness in the loop
    tres,           \* what populate_collections returned to each task last
    reply,          \* the reply of the store to the last call of each task
    picks,          \* reports taken from the file streams so far
    applied,        \* reports applied one after another, with their clock reading
    shutdown_requested,  \* tracker::run: the shutdown signal has been raised
    stopped,        \* tracker::run: the loop has been left
    edge_calls,     \* calls of Edge::new: the cells and ingest times, and the Edge
    stream_pc,      \* process_file per stream: "waiting", "open" or "closed"
    chunks_taken,   \* per stream: chunks handed to for_each_concurrent so far
    msgs_done,      \* per stream and chunk: reports of the chunk dealt with
    in_flight,      \* per stream: reports inside populate_collections
    js_pc,          \* JoinSet-based process(): position of the caller
    js_after_ts,    \* JoinSet-based process(): argument after_ts
    js_file_list,   \* JoinSet-based process(): timestamps of file_list
    js_max_ts,      \* JoinSet-based process(): max_ts
    js_stream,      \* JoinSet-based process(): entries the stream has yet to yield
    js_tasks,       \* JoinSet-based process(): state of each spawned task
    js_set,         \* JoinSet-based process(): tasks in `set`, not yet joined
    js_result       \* JoinSet-based process(): what the call returned

\* the entity collections and the report tasks that write them
entities == << beacons, hotspots, edges, tokens, tpc, trep, twi, tres, reply, picks, applied >>

\* the tracker, the scheduler of the files and the files collection
pipeline == << after_utc, pc, after_ts, list_res, listing, lookup, done_keys, file_infos, max_ts,
               fpc, ridx, failed_files, read_err, kept, result, files, pop_err, log,
               peer_ops, driver, before_ts >>

\* the shutdown signal and the loop of the tracker
control == << shutdown_requested, stopped >>

\* what the file scheduler and the report tasks never write
chunking == << stream_pc, chunks_taken, msgs_done, in_flight >>

\* the JoinSet-based process() of the earlier handler
joinset == << js_pc, js_after_ts, js_file_list, js_max_ts, js_stream, js_tasks, js_set,
             js_result >>
rest == << control, edge_calls, chunking, joinset >>

Streams == 1 .. NumStreams

\* .chunks(file_chunk_size): the number of chunks of a stream of StreamLen
\* reports, the last one holding what is left
ChunkCount == (StreamLen + file_chunk_size - 1) \div file_chunk_size

vars == << pipeline, entities, rest >>

\* ------------------------------------------------------- pure helpers
\* the ascending sequence of the elements of a set of file keys
RECURSIVE SortedSeq(_)
SortedSeq(S) ==
    IF S = {} THEN << >>
    ELSE LET m == CHOOSE x \in S : \A y \in S : x <= y
         IN << m >> \o SortedSeq(S \ {m})

Range(s) == { s[i] : i \in DOMAIN s }

\* FileStore::list_all(ft, after, before): files of the window, in key order
list_all(after, before) ==
    SortedSeq({ f \in Files : Timestamp(f) >= after /\ Timestamp(f) <= before })

\* before_ts = None
NoBefore == MaxTs + NumFiles + 1

\* rehydrate: date.checked_add_days(Days::new(1)), in ticks of the clock
Day == 1

\* rehydrate: the dates --date can name
RehydrateDates == 1 .. MaxTs

\* ------------------------------------------------- the files collection
Absent == [exists |-> FALSE, done |-> FALSE, retries |-> 0]

\* IotPocFile::from(&FileInfo): done = false, retries = 0
IotPocFile_from(f) == [exists |-> TRUE, done |-> FALSE, retries |-> 0]

file_exists_Always(fs, key) == TRUE

\* FOR f IN files FILTER f._key == @key RETURN f._key, non-empty
file_exists(fs, key) == fs[key].exists

insert_document_Overwrite(fs, key, doc) == [fs EXCEPT ![key] = doc]

\* insert_document with default InsertOptions: a unique-constraint conflict
\* (1210) leaves the stored document as it is and is reported as Ok
insert_document(fs, key, doc) ==
    IF fs[key].exists THEN fs ELSE [fs EXCEPT ![key] = doc]

\* UPDATE @key WITH { done: true } IN files
complete_file(fs, key) == [fs EXCEPT ![key].done = TRUE]

insert_document_result_Forward(rp) == IF rp = "ok" THEN "Ok" ELSE "Err"

\* what insert_document returns for the reply of create_document: Ok(()) also
\* for an Arango error numbered 1210 or 1200
insert_document_result(rp) == IF rp = "error" THEN "Err" ELSE "Ok"

increment_file_retry_Reset(fs, key) == [fs EXCEPT ![key].retries = 0]

\* UPDATE @key WITH { retries: OLD.retries + 1 } IN files
increment_file_retry(fs, key) == [fs EXCEPT ![key].retries = @ + 1]

\* FOR f IN files FILTER f.done == true RETURN f._key
get_done_file_keys(fs) == { k \in Files : fs[k].exists /\ fs[k].done }

\* FOR f IN files FILTER f._key == @key RETURN f.retries; Ok(0) when empty
get_file_retries(fs, key) == IF fs[key].exists THEN fs[key].retries ELSE 0

\* ------------------------------------------------ the reports of the feed
\* Option<u64>::None of a location cell
None == 0

\* the location cells of the reports: None and one H3 cell
Cells == {None, 1}

\* the poc_ids, the public keys of the beaconing hotspots and of all hotspots
PocIds == {1, 2}
BeaconKeys == {1, 2}
PubKeys == {1, 2, 3}

\* the closures of for_each_concurrent in process_file that are applying the
\* reports of their chunks, whatever open file they belong to
Tasks == {1, 2}

\* the readings of Utc::now() and DATE_NOW(): two clocks that may disagree
Clock == 0 .. MaxNow

\* an IotVerifiedWitnessReport: the hotspot pk heard the beacon from cell loc
\* with antenna gain and elevation loc, at snr s, as Witness::try_from turns it
\* into a Witness: selected false and distance 0.0
W(pk, loc, s) ==
    [pub_key |-> pk, location |-> loc, gain |-> loc, elevation |-> loc,
     snr |-> s, signal |-> 0 - s, ingest_time_unix |-> s, selected |-> FALSE,
     distance |-> 0]

\* the witness lists of the reports beaconed by hotspot b: the selected and
\* the unselected witnesses of each
WitnessLists(b) ==
    LET k1 == (b % 3) + 1
        k2 == ((b + 1) % 3) + 1
    IN { << << >>, << >> >>,
         << << W(k1, None, 0) >>, << >> >>,
         << << W(k1, 1, 1) >>, << >> >>,
         << << W(k1, None, 0) >>, << W(k2, None, 1) >> >>,
         << << >>, << W(k1, None, 0) >> >> }

\* an IotPoc: the beacon report of poc_id p sent by hotspot b, with its
\* selected witnesses sel and its unselected witnesses unsel
IotPoc(p, b, sel, unsel) ==
    [poc_id |-> p, pub_key |-> b, location |-> p - 1, gain |-> p - 1, elevation |-> p - 1,
     ingest_time_unix |-> 1, selected_witnesses |-> sel, unselected_witnesses |-> unsel]

\* the decoded reports the files of the feed can hold
Reports ==
    UNION { { IotPoc(p, b, ws[1], ws[2]) : p \in PocIds, ws \in WitnessLists(b) } :
            b \in BeaconKeys }

NoReport == IotPoc(0, 0, << >>, << >>)

\* iot_poc.selected_witnesses
selected_witnesses(r) == r.selected_witnesses

\* the `witness.selected = ..` of Witnesses::try_from
mark_selected(ws, flag) ==
    IF ws = << >> THEN << >>
    ELSE [i \in DOMAIN ws |-> [ws[i] EXCEPT !.selected = flag]]

\* Witnesses::try_from(&IotPoc): the selected witnesses, marked, then the
\* unselected ones
Witnesses_try_from(r) ==
    mark_selected(r.selected_witnesses, TRUE) \o mark_selected(r.unselected_witnesses, FALSE)

is_dropped_Never(r) == FALSE

is_dropped_NoWitnesses(r) == Witnesses_try_from(r) = << >>

\* populate_collections: `if iot_poc.selected_witnesses.is_empty()`
is_dropped(r) == selected_witnesses(r) = << >>

\* ------------------------------------------------- the entity collections
NoDoc == [exists |-> FALSE]

\* format!("{:?}", loc) of a u64 cell: its decimal digits
fmt_cell(loc) == ToString(loc)

witness_edge_key_Undelimited(beacon_loc, witness_loc) ==
    "beacon_witness_"
        \o (IF beacon_loc = None THEN "unknown" ELSE fmt_cell(beacon_loc))
        \o (IF witness_loc = None THEN "unknown" ELSE fmt_cell(witness_loc))

\* witness_edge_key(beacon_loc, witness_loc): the four arms of the match
witness_edge_key(beacon_loc, witness_loc) ==
    CASE beacon_loc # None /\ witness_loc # None ->
            "beacon_" \o fmt_cell(beacon_loc) \o "_witness_" \o fmt_cell(witness_loc)
      [] beacon_loc # None /\ witness_loc = None ->
            "beacon_" \o fmt_cell(beacon_loc) \o "_witness_unknown"
      [] beacon_loc = None /\ witness_loc # None ->
            "beacon_unknown_witness_" \o fmt_cell(witness_loc)
      [] OTHER -> "beacon_unknown_witness_unknown"

\* the cells Edge::new is called with on its own: cells whose digits overlap
KeyCells == {None, 1, 11}

EdgeKeys == { witness_edge_key(b, w) : b \in Cells \cup KeyCells, w \in Cells \cup KeyCells }

\* i64: the least and the greatest value
I64Min == 0 - 2 ^ (IntBits - 1)
I64Max == 2 ^ (IntBits - 1) - 1

\* the ingest times Edge::new is called with on its own
IngestTimes == {I64Min, 0, 1, I64Max}

\* Option<i64>
NoneI64 == [some |-> FALSE, v |-> 0]
SomeI64(v) == [some |-> TRUE, v |-> v]

\* i64::checked_sub: None when the difference is not an i64
checked_sub(a, b) == IF a - b >= I64Min /\ a - b <= I64Max THEN SomeI64(a - b) ELSE NoneI64

\* Option::unwrap_or_default
unwrap_or_default(o) == IF o.some THEN o.v ELSE 0

\* Option<f64>, the coordinates standing on a grid of whole numbers
NoneF64 == [some |-> FALSE, v |-> 0]
SomeF64(v) == [some |-> TRUE, v |-> v]

\* LocData::from_h3(location): the centre of the cell, nothing for no cell
LocData_from_h3(location) ==
    IF location = None THEN [lat |-> NoneF64, lng |-> NoneF64]
                       ELSE [lat |-> SomeF64(location), lng |-> SomeF64(0)]

\* the distance of two points of the grid
distance_from_points(x1, y1, x2, y2) ==
    (IF x1 >= x2 THEN x1 - x2 ELSE x2 - x1) + (IF y1 >= y2 THEN y1 - y2 ELSE y2 - y1)

calc_distance_FromOrigin(beacon_lat, beacon_lng, witness_lat, witness_lng) ==
    SomeF64(distance_from_points(beacon_lat.v, beacon_lng.v, witness_lat.v, witness_lng.v))

\* calc_distance: Some(distance) when the four coordinates are known, None
\* otherwise
calc_distance(beacon_lat, beacon_lng, witness_lat, witness_lng) ==
    IF beacon_lat.some /\ beacon_lng.some /\ witness_lat.some /\ witness_lng.some
        THEN SomeF64(distance_from_points(beacon_lat.v, beacon_lng.v,
                                          witness_lat.v, witness_lng.v))
        ELSE NoneF64

\* calc_distance(..)?.unwrap_or_default() on the coordinates of two cells
cell_distance(beacon_loc, witness_loc) ==
    LET b == LocData_from_h3(beacon_loc)
        w == LocData_from_h3(witness_loc)
    IN unwrap_or_default(calc_distance(b.lat, b.lng, w.lat, w.lng))

\* Beacon::set_witness_distance: the distance is attached to each witness
set_witness_distance(location, witnesses) ==
    IF witnesses = << >> THEN << >>
    ELSE [i \in DOMAIN witnesses |->
             [witnesses[i] EXCEPT !.distance = cell_distance(location, witnesses[i].location)]]

\* Beacon::try_from(&IotPoc): the document of the beacons collection
Beacon_try_from(r) ==
    [exists |-> TRUE, poc_id |-> r.poc_id, pub_key |-> r.pub_key, location |-> r.location,
     gain |-> r.gain, elevation |-> r.elevation, ingest_time_unix |-> r.ingest_time_unix,
     witnesses |-> set_witness_distance(r.location, Witnesses_try_from(r))]

\* Hotspot::try_from(&Beacon), last_updated_at being Utc::now()
Hotspot_from_beacon(r, now) ==
    [exists |-> TRUE, poc_ids |-> {r.poc_id}, location |-> r.location, gain |-> r.gain,
     elevation |-> r.elevation, last_updated_at |-> now]

\* Hotspot::try_from(&Witness), last_updated_at being Utc::now()
Hotspot_from_witness(w, now) ==
    [exists |-> TRUE, poc_ids |-> {}, location |-> w.location, gain |-> w.gain,
     elevation |-> w.elevation, last_updated_at |-> now]

\* Edge::new(&beacon, witness)
Edge_new(r, w) ==
    [_key |-> witness_edge_key(r.location, w.location),
     beacon_pub_key |-> r.pub_key, witness_pub_key |-> w.pub_key,
     distance |-> cell_distance(r.location, w.location),
     witness_snr |-> w.snr, witness_signal |-> w.signal,
     ingest_latency |-> unwrap_or_default(checked_sub(w.ingest_time_unix, r.ingest_time_unix))]

\* MAX([a, b]) of AQL
MAX(a, b) == IF a >= b THEN a ELSE b

populate_hotspot_LastPoc(hs, hotspot_type, key, hotspot, poc_id, now) ==
    IF ~hs[key].exists THEN [hs EXCEPT ![key] = hotspot]
    ELSE IF hotspot_type = "Beacon"
        THEN [hs EXCEPT ![key].poc_ids = {poc_id},
                        ![key].last_updated_at = MAX(@, now),
                        ![key].gain = hotspot.gain,
                        ![key].elevation = hotspot.elevation]
        ELSE [hs EXCEPT ![key].last_updated_at = MAX(@, now),
                        ![key].gain = hotspot.gain,
                        ![key].elevation = hotspot.elevation]

populate_hotspot_Overwrite(hs, hotspot_type, key, hotspot, poc_id, now) ==
    [hs EXCEPT ![key] = hotspot]

\* populate_hotspot, the store accepting the query: UPSERT { _key: @pub_key }
\* INSERT @hotspot UPDATE { poc_ids (beacon role only), last_updated_at, gain,
\* elevation }
populate_hotspot(hs, hotspot_type, key, hotspot, poc_id, now) ==
    IF ~hs[key].exists THEN [hs EXCEPT ![key] = hotspot]
    ELSE IF hotspot_type = "Beacon"
        THEN [hs EXCEPT ![key].poc_ids = @ \cup {poc_id},
                        ![key].last_updated_at = MAX(@, now),
                        ![key].gain = hotspot.gain,
                        ![key].elevation = hotspot.elevation]
        ELSE [hs EXCEPT ![key].last_updated_at = MAX(@, now),
                        ![key].gain = hotspot.gain,
                        ![key].elevation = hotspot.elevation]

\* a histogram: the function from its buckets to their counts
EmptyHist == [v \in {} |-> 0]

hist_merge_Double(h, v) ==
    [x \in (DOMAIN h) \cup {v} |-> IF x = v /\ v \in DOMAIN h THEN h[v] + 2
                                   ELSE IF x = v THEN 1 ELSE h[x]]

hist_merge_Overwrite(h, v) == [x \in (DOMAIN h) \cup {v} |-> IF x = v THEN 1 ELSE h[x]]

\* MERGE(OLD.hist, {@v: OLD.hist[@v] ? OLD.hist[@v] + 1 : 1})
hist_merge(h, v) ==
    LET c == IF v \in DOMAIN h /\ h[v] # 0 THEN h[v] + 1 ELSE 1
    IN [x \in (DOMAIN h) \cup {v} |-> IF x = v THEN c ELSE h[x]]

populate_edge_KeepCount(es, e) ==
    IF ~es[e._key].exists
        THEN [es EXCEPT ![e._key] =
                 [exists |-> TRUE, from |-> e.beacon_pub_key, to |-> e.witness_pub_key,
                  count |-> 1, distance |-> e.distance,
                  snr_hist |-> hist_merge(EmptyHist, e.witness_snr),
                  signal_hist |-> hist_merge(EmptyHist, e.witness_signal),
                  ingest_latency_hist |-> hist_merge(EmptyHist, e.ingest_latency)]]
        ELSE [es EXCEPT ![e._key].snr_hist = hist_merge(@, e.witness_snr),
                        ![e._key].signal_hist = hist_merge(@, e.witness_signal),
                        ![e._key].ingest_latency_hist = hist_merge(@, e.ingest_latency)]

\* populate_edge, the store accepting the query: UPSERT { _key } INSERT { count:
\* 1, one bucket per histogram } UPDATE { count: OLD.count + 1, the three
\* MERGEs }; the last_updated_at of an edge is left out of the model
populate_edge(es, e) ==
    IF ~es[e._key].exists
        THEN [es EXCEPT ![e._key] =
                 [exists |-> TRUE, from |-> e.beacon_pub_key, to |-> e.witness_pub_key,
                  count |-> 1, distance |-> e.distance,
                  snr_hist |-> hist_merge(EmptyHist, e.witness_snr),
                  signal_hist |-> hist_merge(EmptyHist, e.witness_signal),
                  ingest_latency_hist |-> hist_merge(EmptyHist, e.ingest_latency)]]
        ELSE [es EXCEPT ![e._key].count = @ + 1,
                        ![e._key].snr_hist = hist_merge(@, e.witness_snr),
                        ![e._key].signal_hist = hist_merge(@, e.witness_signal),
                        ![e._key].ingest_latency_hist = hist_merge(@, e.ingest_latency)]

\* FOR b IN beacons FILTER b._key == @poc_id RETURN b.poc_id
beacon_exists(bs, poc_id) == bs[poc_id].exists

\* populate_beacon, no call failing: insert unless beacon_exists
populate_beacon(bs, beacon) ==
    IF beacon_exists(bs, beacon.poc_id) THEN bs
    ELSE insert_document(bs, beacon.poc_id, beacon)

\* the loop of populate_collections over beacon.witnesses, from witness i on
RECURSIVE populate_witnesses(_, _, _, _)
populate_witnesses(st, r, i, now) ==
    IF i > Len(Witnesses_try_from(r)) THEN st
    ELSE LET w == Witnesses_try_from(r)[i]
             hs == populate_hotspot(st[2], "Witness", w.pub_key,
                                    Hotspot_from_witness(w, now), None, now)
             es == populate_edge(st[3], Edge_new(r, w))
         IN populate_witnesses(<< st[1], hs, es >>, r, i + 1, now)

\* populate_collections(dec_msg), no call failing, on the store st = << beacons,
\* hotspots, edges >>, every clock reading being now
populate_collections(st, r, now) ==
    IF is_dropped(r) THEN st
    ELSE LET hs == populate_hotspot(st[2], "Beacon", r.pub_key,
                                    Hotspot_from_beacon(r, now), r.poc_id, now)
             ws == populate_witnesses(<< st[1], hs, st[3] >>, r, 1, now)
         IN << populate_beacon(ws[1], Beacon_try_from(r)), ws[2], ws[3] >>

EmptyStore ==
    << [p \in PocIds |-> NoDoc], [k \in PubKeys |-> NoDoc], [ek \in EdgeKeys |-> NoDoc] >>

\* the store after the reports of the sequence s were applied one after another
RECURSIVE ApplyAll(_)
ApplyAll(s) ==
    IF s = << >> THEN EmptyStore
    ELSE populate_collections(ApplyAll(SubSeq(s, 1, Len(s) - 1)), s[Len(s)][1], s[Len(s)][2])

\* ------------------------------------------------------- process() helpers
Ok(ts) == [kind |-> "Ok", ts |-> ts]
Err == [kind |-> "Err", ts |-> 0]
NoResult == [kind |-> "None", ts |-> 0]

RECURSIVE MaxByKey(_, _)
\* Iterator::max_by_key(|fi| fi.timestamp): the last maximal element
MaxByKey(s, best) ==
    IF s = << >> THEN best
    ELSE MaxByKey(Tail(s), IF Timestamp(Head(s)) >= Timestamp(best) THEN Head(s) ELSE best)

RECURSIVE MinByKey(_, _)
\* Iterator::min_by_key(|fi| fi.timestamp): the first minimal element
MinByKey(s, best) ==
    IF s = << >> THEN best
    ELSE MinByKey(Tail(s), IF Timestamp(Head(s)) < Timestamp(best) THEN Head(s) ELSE best)

get_max_ts_Min(fis, dflt) ==
    IF fis = << >> THEN dflt ELSE Timestamp(MinByKey(Tail(fis), Head(fis)))

\* get_max_ts(&file_infos).unwrap_or(dflt)
get_max_ts(fis, dflt) ==
    IF fis = << >> THEN dflt ELSE Timestamp(MaxByKey(Tail(fis), Head(fis)))

get_min_ts_NoDefault(fis, dflt) ==
    IF fis = << >> THEN 0 ELSE Timestamp(MinByKey(Tail(fis), Head(fis)))

get_min_ts_Max(fis, dflt) ==
    IF fis = << >> THEN dflt ELSE Timestamp(MaxByKey(Tail(fis), Head(fis)))

\* get_min_ts(&failed_files).unwrap_or(dflt)
get_min_ts(fis, dflt) ==
    IF fis = << >> THEN dflt ELSE Timestamp(MinByKey(Tail(fis), Head(fis)))

retain_not_done_KeepAll(fis, keys) == fis

\* file_infos.retain(|fi| !done_file_keys.contains(&fi.key))
retain_not_done(fis, keys) == SelectSeq(fis, LAMBDA f : f \notin keys)

retry_filter_Strict(failed, fs, unread) ==
    { f \in failed : f \notin unread /\ get_file_retries(fs, f) < max_retries }

\* the filter of filter_retry_exceeded_failed_files: unread are the files
\* whose get_file_retries call returned an error
retry_filter(failed, fs, unread) ==
    { f \in failed : f \notin unread /\ get_file_retries(fs, f) <= max_retries }

list_error_result_OkAfter(after) == Ok(after)

\* self.store.list_all(..).await? : the listing error is the result of process()
list_error_result(after) == Err

tracker_next_utc_HoldOnError(previous_utc, res) ==
    LET next_utc == previous_utc + interval
    IN IF res.kind = "Err" THEN previous_utc
       ELSE IF res.ts >= next_utc THEN res.ts ELSE next_utc

\* tracker::run, one tick: next_utc after process(next_utc, None) returned res
tracker_next_utc(previous_utc, res) ==
    LET next_utc == previous_utc + interval
    IN IF res.kind = "Ok" /\ res.ts >= next_utc THEN res.ts ELSE next_utc

\* ------------------------------------------------------------------ Init
InitStore ==
    /\ after_utc = 0
    /\ pc = "idle"
    /\ after_ts = 0
    /\ before_ts = NoBefore
    /\ list_res = "none"
    /\ listing = << >>
    /\ lookup = "none"
    /\ done_keys = {}
    /\ file_infos = << >>
    /\ max_ts = 0
    /\ fpc = [f \in Files |-> "none"]
    /\ ridx = [f \in Files |-> 0]
    /\ failed_files = EmptyBag
    /\ read_err = {}
    /\ kept = {}
    /\ result = NoResult
    /\ files = [f \in Files |-> Absent]
    /\ pop_err = {}
    /\ log = {}
    /\ peer_ops = 0
    /\ beacons = EmptyStore[1]
    /\ hotspots = EmptyStore[2]
    /\ edges = EmptyStore[3]
    /\ tokens = EmptyBag
    /\ tpc = [t \in Tasks |-> "idle"]
    /\ trep = [t \in Tasks |-> NoReport]
    /\ twi = [t \in Tasks |-> 1]
    /\ tres = [t \in Tasks |-> "none"]
    /\ reply = [t \in Tasks |-> "none"]
    /\ picks = 0
    /\ applied = << >>
    /\ shutdown_requested = FALSE
    /\ stopped = FALSE
    /\ edge_calls = << >>
    /\ stream_pc = [f \in Streams |-> "waiting"]
    /\ chunks_taken = [f \in Streams |-> 0]
    /\ msgs_done = [f \in Streams |-> [c \in 1 .. ChunkCount |-> 0]]
    /\ in_flight = [f \in Streams |-> {}]
    /\ js_pc = "idle"
    /\ js_after_ts = 0
    /\ js_file_list = << >>
    /\ js_max_ts = 0
    /\ js_stream = << >>
    /\ js_tasks = [i \in 1 .. MaxMsgs |-> "unspawned"]
    /\ js_set = {}
    /\ js_result = NoResult

\* the `current` tracker: Tracker::new, then run
Init == InitStore /\ driver = "tracker"

\* the `rehydrate` command: one call of process() over one day
InitRehydrate == InitStore /\ driver = "rehydrate"

\* ------------------------------------------------------------- process()
\* process() returns res; a tick of tracker::run then stores next_utc, while
\* rehydrate passes the result on and exits
Return(res) ==
    /\ result' = res
    /\ after_utc' = IF driver = "tracker" THEN tracker_next_utc(after_utc, res)
                                          ELSE after_utc
    /\ pc' = "idle"

\* a call process(after, before) starts from a clean slate
BeginProcess(after, before) ==
    /\ pc = "idle"
    /\ after_ts' = after
    /\ before_ts' = before
    /\ lookup' = "none"
    /\ done_keys' = {}
    /\ file_infos' = << >>
    /\ max_ts' = 0
    /\ fpc' = [f \in Files |-> "none"]
    /\ ridx' = [f \in Files |-> 0]
    /\ failed_files' = EmptyBag
    /\ read_err' = {}
    /\ kept' = {}
    /\ pop_err' = {}
    /\ log' = {}
    /\ UNCHANGED << files, peer_ops, driver, entities, rest >>

\* list_all fails: `?` makes the error the result of process()
ListError ==
    /\ list_res' = "err"
    /\ listing' = << >>
    /\ Return(list_error_result(after_ts'))

\* list_all returns no file: return Ok(after_ts)
ListEmpty ==
    /\ list_res' = "ok"
    /\ listing' = list_all(after_ts', before_ts')
    /\ listing' = << >>
    /\ Return(Ok(after_ts'))

\* list_all returns the files of the window
Listed ==
    /\ list_res' = "ok"
    /\ listing' = list_all(after_ts', before_ts')
    /\ listing' # << >>
    /\ pc' = "listed"
    /\ UNCHANGED << after_utc, result >>

\* ------------------------------------------------------------ tracker::run
\* trigger.tick(): process(next_utc, None) is called
StartRun ==
    /\ driver = "tracker"
    /\ ~stopped
    /\ after_utc + interval <= MaxTs
    /\ BeginProcess(after_utc + interval, NoBefore)

TickListError == StartRun /\ ListError

TickListEmpty == StartRun /\ ListEmpty

TickListed == StartRun /\ Listed

\* the shutdown signal is raised: on_shutdown_requested() becomes ready, at
\* any moment, also while the tick branch is awaiting process()
RequestShutdown ==
    /\ driver = "tracker"
    /\ ~shutdown_requested
    /\ shutdown_requested' = TRUE
    /\ UNCHANGED << pipeline, entities, joinset, stopped, edge_calls, chunking >>

\* select! takes the shutdown branch: request_shutdown(), break. The loop is
\* at select! only between two ticks, and a tick that is ready at the same
\* moment may be taken first
StopLoop ==
    /\ driver = "tracker"
    /\ pc = "idle"
    /\ shutdown_requested
    /\ ~stopped
    /\ stopped' = TRUE
    /\ UNCHANGED << pipeline, entities, joinset, shutdown_requested, edge_calls, chunking >>

\* ------------------------------------------------------ rehydrate::Cmd::run
\* handler.process(after_utc, Some(before_utc)), once
StartRehydrate ==
    /\ driver = "rehydrate"
    /\ result.kind = "None"
    /\ \E date \in RehydrateDates : BeginProcess(date, date + Day)

RehydrateListError == StartRehydrate /\ ListError

RehydrateListEmpty == StartRehydrate /\ ListEmpty

RehydrateListed == StartRehydrate /\ Listed

\* exclude_done_files: the done keys are read and removed from file_infos,
\* or the lookup fails and the error is ignored
ExcludeDoneResult(lk) ==
    /\ pc = "listed"
    /\ lookup' = lk
    /\ done_keys' = IF lk = "ok" THEN get_done_file_keys(files) ELSE {}
    /\ file_infos' = IF done_keys' # {} THEN retain_not_done(listing, done_keys')
                                        ELSE listing

\* every file of the listing is done: return Ok(after_ts)
ExcludeDoneAllDone ==
    /\ \E lk \in {"ok", "err"} : ExcludeDoneResult(lk)
    /\ file_infos' = << >>
    /\ Return(Ok(after_ts))
    /\ UNCHANGED << after_ts, list_res, listing, max_ts, fpc, ridx, failed_files, read_err,
                    kept, files, pop_err, log, peer_ops, driver, before_ts, entities, rest >>

\* some files remain: max_ts is taken and process_files starts
ExcludeDoneStart ==
    /\ \E lk \in {"ok", "err"} : ExcludeDoneResult(lk)
    /\ file_infos' # << >>
    /\ max_ts' = get_max_ts(file_infos', after_ts)
    /\ fpc' = [f \in Files |-> IF f \in Range(file_infos') THEN "queued" ELSE "none"]
    /\ pc' = "files"
    /\ UNCHANGED << after_utc, after_ts, list_res, listing, ridx, failed_files, read_err, kept,
                    result, files, pop_err, log, peer_ops, driver, before_ts, entities, rest >>

\* ----------------------------------------------------------- process_files
Position(f) == CHOOSE i \in DOMAIN file_infos : file_infos[i] = f

\* the closures for_each_concurrent is polling
Active(f) == fpc[f] \notin {"none", "queued", "finished"}

HoldsPermit_Leaked(f) ==
    fpc[f] \in {"init", "insert", "stream", "reports", "complete", "finished"}

\* the tasks holding a permit of the semaphore: _permit is dropped when the
\* arm of the match ends
HoldsPermit(f) == fpc[f] \in {"init", "insert", "stream", "reports", "complete"}

PermitFree_Always == TRUE

PermitFree == Cardinality({ g \in Files : HoldsPermit(g) }) < max_processing_capacity

\* for_each_concurrent(max_concurrent_files, ..) takes the next file of the list
\* and polls its closure, which runs up to its first pending await: acquire()
\* is ready at once when a permit is free
Spawn(f) ==
    /\ pc = "files"
    /\ fpc[f] = "queued"
    /\ \A g \in Range(file_infos) : Position(g) < Position(f) => fpc[g] # "queued"
    /\ Cardinality({ g \in Files : Active(g) }) < max_concurrent_files
    /\ fpc' = [fpc EXCEPT ![f] = IF PermitFree THEN "init" ELSE "acquire"]
    /\ UNCHANGED << after_utc, pc, after_ts, list_res, listing, lookup, done_keys, file_infos,
                    max_ts, ridx, failed_files, read_err, kept, result, files,
                    pop_err, log, peer_ops, driver, before_ts, entities, rest >>

\* semaphore.acquire().await
Acquire(f) ==
    /\ pc = "files"
    /\ fpc[f] = "acquire"
    /\ PermitFree
    /\ fpc' = [fpc EXCEPT ![f] = "init"]
    /\ UNCHANGED << after_utc, pc, after_ts, list_res, listing, lookup, done_keys, file_infos,
                    max_ts, ridx, failed_files, read_err, kept, result, files,
                    pop_err, log, peer_ops, driver, before_ts, entities, rest >>

FailPass_LostPush(f, issued) ==
    /\ failed_files' = IF failed_files = EmptyBag THEN SetToBag({f}) ELSE failed_files
    /\ fpc' = [fpc EXCEPT ![f] = "finished"]
    /\ \/ /\ file_exists(files, f)
          /\ files' = increment_file_retry(files, f)
          /\ log' = log \cup issued
                        \cup {<<"increment_file_retry", f>>, <<"increment_ok", f>>}
       \/ /\ files' = files
          /\ log' = log \cup issued \cup {<<"increment_file_retry", f>>}

\* the Err arms of process_files: the file is pushed to failed_files under the
\* lock and increment_file_retry is attempted; its own error is only logged
FailPass(f, issued) ==
    /\ failed_files' = failed_files (+) SetToBag({f})
    /\ fpc' = [fpc EXCEPT ![f] = "finished"]
    /\ \/ /\ file_exists(files, f)
          /\ files' = increment_file_retry(files, f)
          /\ log' = log \cup issued
                        \cup {<<"increment_file_retry", f>>, <<"increment_ok", f>>}
       \/ /\ files' = files
          /\ log' = log \cup issued \cup {<<"increment_file_retry", f>>}

\* init_file: the file_exists query
InitFileExists(f) ==
    /\ pc = "files"
    /\ fpc[f] = "init"
    /\ \/ /\ file_exists(files, f)
          /\ fpc' = [fpc EXCEPT ![f] = "stream"]
          /\ log' = log \cup {<<"init_file", f>>}
          /\ UNCHANGED << files, failed_files >>
       \/ /\ ~file_exists(files, f)
          /\ fpc' = [fpc EXCEPT ![f] = "insert"]
          /\ log' = log \cup {<<"init_file", f>>}
          /\ UNCHANGED << files, failed_files >>
       \/ FailPass(f, {<<"init_file", f>>})
    /\ UNCHANGED << after_utc, pc, after_ts, list_res, listing, lookup, done_keys, file_infos,
                    max_ts, ridx, read_err, kept, result, pop_err, peer_ops, driver, before_ts, entities, rest >>

\* init_file: insert_document of the new record
InitFileInsert(f) ==
    /\ pc = "files"
    /\ fpc[f] = "insert"
    /\ \/ /\ files' = insert_document(files, f, IotPocFile_from(f))
          /\ fpc' = [fpc EXCEPT ![f] = "stream"]
          /\ log' = log \cup {<<"insert_file", f>>}
          /\ UNCHANGED failed_files
       \/ FailPass(f, {})
    /\ UNCHANGED << after_utc, pc, after_ts, list_res, listing, lookup, done_keys, file_infos,
                    max_ts, ridx, read_err, kept, result, pop_err, peer_ops, driver, before_ts, entities, rest >>

\* self.store.stream_file(file_info).await?
StreamFile(f) ==
    /\ pc = "files"
    /\ fpc[f] = "stream"
    /\ \/ /\ fpc' = [fpc EXCEPT ![f] = IF ReportCount(f) = 0 THEN "complete" ELSE "reports"]
          /\ UNCHANGED << files, failed_files, log >>
       \/ FailPass(f, {})
    /\ UNCHANGED << after_utc, pc, after_ts, list_res, listing, lookup, done_keys, file_infos,
                    max_ts, ridx, read_err, kept, result, pop_err, peer_ops, driver, before_ts, entities, rest >>

\* what the loop body of process_file meets for one report: the stream item or
\* LoraPocV1::decode fails; a try_from of populate_collections fails (invalid
\* location cell or public key); populate_collections returns Ok and the token
\* is appended, or is not wanted; it returns Ok(Some(poc_id)) and xadd fails;
\* a store call of populate_collections fails
ReportOutcomes == {"undecodable", "untransformable", "Ok", "xadd_failed", "Err"}

\* what the outcome of a report of file f leaves in the log of the run
report_trace(outcome, f) ==
    CASE outcome \in {"undecodable", "untransformable"} -> {<<"dropped", f>>}
      [] outcome = "xadd_failed" -> {<<"populate", f>>, <<"xadd_err", f>>}
      [] OTHER -> {<<"populate", f>>}

report_fails_file_OnDrop(outcome) == outcome \in {"undecodable", "untransformable"}

report_fails_file_OnXadd(outcome) == outcome = "xadd_failed"

\* whether the outcome of a report makes process_file return Err: every arm
\* of the match only logs
report_fails_file(outcome) == FALSE

\* one report of the file: decode, populate_collections, log the error
ApplyReport(f) ==
    /\ pc = "files"
    /\ fpc[f] = "reports"
    /\ \E outcome \in ReportOutcomes :
          /\ pop_err' = IF outcome = "Err" THEN pop_err \cup {f} ELSE pop_err
          /\ IF report_fails_file(outcome)
                THEN /\ FailPass(f, report_trace(outcome, f))
                     /\ ridx' = ridx
                ELSE /\ ridx' = [ridx EXCEPT ![f] = @ + 1]
                     /\ fpc' = [fpc EXCEPT ![f] =
                                  IF ridx'[f] = ReportCount(f) THEN "complete" ELSE "reports"]
                     /\ log' = log \cup report_trace(outcome, f)
                     /\ UNCHANGED << files, failed_files >>
    /\ UNCHANGED << after_utc, pc, after_ts, list_res, listing, lookup, done_keys, file_infos,
                    max_ts, read_err, kept, result, peer_ops, driver, before_ts, entities, rest >>

\* process_file returned Ok(()): complete_file
CompleteFile(f) ==
    /\ pc = "files"
    /\ fpc[f] = "complete"
    /\ \/ /\ file_exists(files, f)
          /\ files' = complete_file(files, f)
          /\ fpc' = [fpc EXCEPT ![f] = "finished"]
          /\ log' = log \cup {<<"complete_file", f>>, <<"complete_ok", f>>}
          /\ UNCHANGED failed_files
       \/ FailPass(f, {<<"complete_file", f>>})
    /\ UNCHANGED << after_utc, pc, after_ts, list_res, listing, lookup, done_keys, file_infos,
                    max_ts, ridx, read_err, kept, result, pop_err, peer_ops, driver, before_ts, entities, rest >>

AllFinished == \A f \in Range(file_infos) : fpc[f] = "finished"

FailedSet == BagToSet(failed_files)

\* process_files returned Ok(None): process() returns max_ts
ReturnAllOk ==
    /\ pc = "files"
    /\ AllFinished
    /\ failed_files = EmptyBag
    /\ Return(Ok(max_ts))
    /\ UNCHANGED << after_ts, list_res, listing, lookup, done_keys, file_infos, max_ts, fpc,
                    ridx, failed_files, read_err, kept, files, pop_err, log, peer_ops, driver, before_ts, entities, rest >>

\* process_files returned Ok(Some(failed_files)): the retry filter, then min_ts
ReturnFailed ==
    /\ pc = "files"
    /\ AllFinished
    /\ failed_files # EmptyBag
    /\ \E re \in SUBSET FailedSet :
          /\ read_err' = re
          /\ kept' = retry_filter(FailedSet, files, re)
    /\ Return(Ok(get_min_ts(SortedSeq(kept'), max_ts)))
    /\ UNCHANGED << after_ts, list_res, listing, lookup, done_keys, file_infos, max_ts, fpc,
                    ridx, failed_files, files, pop_err, log, peer_ops, driver, before_ts, entities, rest >>

\* ------------------------------------------- a second pipeline instance
\* the store operations of one file pass of another instance, which reach the
\* store between two steps of this one
PeerFrame ==
    /\ peer_ops < MaxPeerOps
    /\ peer_ops' = peer_ops + 1
    /\ UNCHANGED << after_utc, pc, after_ts, list_res, listing, lookup, done_keys,
                    file_infos, max_ts, fpc, ridx, failed_files, read_err, kept,
                    result, pop_err, log, driver, before_ts, entities, rest >>

\* the other instance is inside process_file: init_file has inserted
PeerInitFile(k) ==
    /\ PeerFrame
    /\ files' = insert_document(files, k, IotPocFile_from(k))

\* the other instance's pass of the file ended with complete_file
PeerPassCompleted(k) ==
    /\ PeerFrame
    /\ files' = complete_file(insert_document(files, k, IotPocFile_from(k)), k)

\* the other instance's pass of the file ended with increment_file_retry
PeerPassFailed(k) ==
    /\ PeerFrame
    /\ files' = increment_file_retry(insert_document(files, k, IotPocFile_from(k)), k)

\* ------------------------------------------------------- the report tasks
\* the witness of the current turn of the loop over beacon.witnesses
Witness(t) == Witnesses_try_from(trep[t])[twi[t]]

\* the hotspot key the pending upsert of task t is about
HotspotKey(t) == IF tpc[t] = "hotspot" THEN trep[t].pub_key ELSE Witness(t).pub_key

\* another task has an upsert on the same hotspot key under way
Racing(t) ==
    \E u \in Tasks \ {t} :
        tpc[u] \in {"hotspot", "whotspot"} /\ HotspotKey(u) = HotspotKey(t)

\* what populate_collections returned, as process_file matches it
report_outcome(res) == IF res = "Err" THEN "Err" ELSE "Ok"

TaskFrame(t) == UNCHANGED << pipeline, picks, applied, rest >>

Finish_PublishAlways(t, res) ==
    /\ tpc' = [tpc EXCEPT ![t] = "idle"]
    /\ tres' = [tres EXCEPT ![t] = res]
    /\ trep' = [trep EXCEPT ![t] = NoReport]
    /\ twi' = [twi EXCEPT ![t] = 1]
    /\ \/ tokens' = tokens (+) SetToBag({trep[t].poc_id})
       \/ tokens' = tokens

\* populate_collections returns res; on Ok(Some(poc_id)) process_file calls
\* rh.xadd("poc_id", ..), whose error is only logged
Finish(t, res) ==
    /\ tpc' = [tpc EXCEPT ![t] = "idle"]
    /\ tres' = [tres EXCEPT ![t] = res]
    /\ trep' = [trep EXCEPT ![t] = NoReport]
    /\ twi' = [twi EXCEPT ![t] = 1]
    /\ \/ res = "OkSome" /\ tokens' = tokens (+) SetToBag({trep[t].poc_id})
       \/ tokens' = tokens

\* the task takes report r, the next of its chunk: LoraPocV1::decode,
\* IotPoc::try_from, the early return of a report nobody witnessed
TakeReportOf(t, r) ==
    /\ tpc[t] = "idle"
    /\ picks < MaxPicks
    /\ picks' = picks + 1
    /\ trep' = [trep EXCEPT ![t] = r]
    /\ IF is_dropped(r)
          THEN /\ tres' = [tres EXCEPT ![t] = "OkNone"]
               /\ UNCHANGED tpc
          ELSE /\ tpc' = [tpc EXCEPT ![t] = "hotspot"]
               /\ tres' = [tres EXCEPT ![t] = "none"]
    /\ reply' = [reply EXCEPT ![t] = "none"]
    /\ UNCHANGED << pipeline, beacons, hotspots, edges, tokens, twi, applied, rest >>

TakeReport(t) == \E r \in Reports : TakeReportOf(t, r)

\* populate_hotspot(HotspotType::Beacon, ..): the upsert is applied, or the
\* store answers 1200 / 1210 (treated as Ok), or another error
PopulateHotspotBeacon(t) ==
    /\ tpc[t] = "hotspot"
    /\ \E rp \in {"ok", "conflict", "error"}, now \in Clock :
          /\ rp = "conflict" => Racing(t)
          /\ reply' = [reply EXCEPT ![t] = rp]
          /\ hotspots' = IF rp = "ok"
                THEN populate_hotspot(hotspots, "Beacon", trep[t].pub_key,
                                      Hotspot_from_beacon(trep[t], now), trep[t].poc_id, now)
                ELSE hotspots
          /\ IF rp = "error"
                THEN Finish(t, "Err")
                ELSE /\ tpc' = [tpc EXCEPT ![t] =
                            IF twi[t] <= Len(Witnesses_try_from(trep[t])) THEN "whotspot"
                                                                 ELSE "beacon_exists"]
                     /\ UNCHANGED << tres, tokens, trep, twi >>
    /\ UNCHANGED << beacons, edges >>
    /\ TaskFrame(t)

\* populate_hotspot(HotspotType::Witness, ..) of the current witness
PopulateHotspotWitness(t) ==
    /\ tpc[t] = "whotspot"
    /\ \E rp \in {"ok", "conflict", "error"}, now \in Clock :
          /\ rp = "conflict" => Racing(t)
          /\ reply' = [reply EXCEPT ![t] = rp]
          /\ hotspots' = IF rp = "ok"
                THEN populate_hotspot(hotspots, "Witness", Witness(t).pub_key,
                                      Hotspot_from_witness(Witness(t), now), None, now)
                ELSE hotspots
          /\ IF rp = "error"
                THEN Finish(t, "Err")
                ELSE /\ tpc' = [tpc EXCEPT ![t] = "edge"]
                     /\ UNCHANGED << tres, tokens, trep, twi >>
    /\ UNCHANGED << beacons, edges >>
    /\ TaskFrame(t)

\* populate_edge(Edge::new(&beacon, witness)): every error of the store,
\* 1200 and 1210 included, is returned
PopulateEdge(t) ==
    /\ tpc[t] = "edge"
    /\ \E rp \in {"ok", "error"} :
          /\ reply' = [reply EXCEPT ![t] = rp]
          /\ IF rp = "ok"
                THEN /\ edges' = populate_edge(edges, Edge_new(trep[t], Witness(t)))
                     /\ twi' = [twi EXCEPT ![t] = @ + 1]
                     /\ tpc' = [tpc EXCEPT ![t] =
                            IF twi[t] < Len(Witnesses_try_from(trep[t])) THEN "whotspot"
                                                                ELSE "beacon_exists"]
                     /\ UNCHANGED << tres, tokens, trep >>
                ELSE /\ Finish(t, "Err")
                     /\ UNCHANGED edges
    /\ UNCHANGED << beacons, hotspots >>
    /\ TaskFrame(t)

\* populate_beacon: the beacon_exists query
BeaconExists(t) ==
    /\ tpc[t] = "beacon_exists"
    /\ \E rp \in {"ok", "error"} :
          /\ reply' = [reply EXCEPT ![t] = rp]
          /\ IF rp = "error" THEN Finish(t, "Err")
             ELSE IF beacon_exists(beacons, trep[t].poc_id) THEN Finish(t, "OkSome")
             ELSE /\ tpc' = [tpc EXCEPT ![t] = "beacon_insert"]
                  /\ UNCHANGED << tres, tokens, trep, twi >>
    /\ UNCHANGED << beacons, hotspots, edges >>
    /\ TaskFrame(t)

\* populate_beacon: insert_document of the beacon; a unique-constraint
\* conflict (1210) is answered when the document exists by now
BeaconInsert(t) ==
    /\ tpc[t] = "beacon_insert"
    /\ \E rp \in {"ok", "conflict", "error"} :
          /\ rp = "ok" => ~beacon_exists(beacons, trep[t].poc_id)
          /\ rp = "conflict" => beacon_exists(beacons, trep[t].poc_id)
          /\ reply' = [reply EXCEPT ![t] = rp]
          /\ beacons' = IF rp = "error" THEN beacons
                         ELSE insert_document(beacons, trep[t].poc_id, Beacon_try_from(trep[t]))
          /\ IF insert_document_result(rp) = "Err" THEN Finish(t, "Err")
                                                     ELSE Finish(t, "OkSome")
    /\ UNCHANGED << hotspots, edges >>
    /\ TaskFrame(t)

\* one report applied from its first write to its last with no other task in
\* between and no call failing
ApplyWhole ==
    /\ Len(applied) < MaxApplied
    /\ \E r \in Reports, now \in Clock :
          /\ applied' = Append(applied, << r, now >>)
          /\ LET st == populate_collections(<< beacons, hotspots, edges >>, r, now)
             IN /\ beacons' = st[1]
                /\ hotspots' = st[2]
                /\ edges' = st[3]
    /\ UNCHANGED << pipeline, tokens, tpc, trep, twi, tres, reply, picks, rest >>

\* Beacon::try_from and Edge::new(&beacon, witness) called on a beacon and a
\* witness of any cells and ingest times
EdgeNewCall ==
    /\ Len(edge_calls) < MaxCalls
    /\ \E bl \in KeyCells, wl \in KeyCells, bt \in IngestTimes, wt \in IngestTimes :
          LET witness == [W(2, wl, 0) EXCEPT !.ingest_time_unix = wt]
              beacon == [IotPoc(1, 1, << witness >>, << >>) EXCEPT !.location = bl,
                                                           !.ingest_time_unix = bt]
          IN edge_calls' = Append(edge_calls,
                                  [beacon_loc |-> bl, witness_loc |-> wl,
                                   beacon_ingest |-> bt, witness_ingest |-> wt,
                                   beacon |-> Beacon_try_from(beacon),
                                   edge |-> Edge_new(beacon, witness)])
    /\ UNCHANGED << pipeline, entities, joinset, control, chunking >>

\* ------------------------------------------------- the chunks of a file
\* the reports of chunk c, by their place in the stream
msgs(c) == { i \in 1 .. StreamLen : (i - 1) \div file_chunk_size + 1 = c }

\* the chunks of stream f whose future has started and not ended
RunningChunks(f) ==
    { c \in 1 .. chunks_taken[f] : msgs_done[f][c] < Cardinality(msgs(c)) }

chunk_may_start_Unbounded(running) == TRUE

\* for_each_concurrent(max_concurrent_files, ..) on the chunks: the next chunk
\* is taken while fewer than the limit are running
chunk_may_start(running) == running < max_concurrent_files

\* process_files lets process_file start on a stream under its permit
OpenStream(f) ==
    /\ stream_pc[f] = "waiting"
    /\ Cardinality({ g \in Streams : stream_pc[g] = "open" }) < max_concurrent_files
    /\ Cardinality({ g \in Streams : stream_pc[g] = "open" }) < max_processing_capacity
    /\ stream_pc' = [stream_pc EXCEPT ![f] = "open"]
    /\ UNCHANGED << pipeline, entities, joinset, control, edge_calls,
                    chunks_taken, msgs_done, in_flight >>

\* the next chunk of the stream is handed to a new future
TakeChunk(f) ==
    /\ stream_pc[f] = "open"
    /\ chunks_taken[f] < ChunkCount
    /\ chunk_may_start(Cardinality(RunningChunks(f)))
    /\ chunks_taken' = [chunks_taken EXCEPT ![f] = @ + 1]
    /\ UNCHANGED << pipeline, entities, joinset, control, edge_calls,
                    stream_pc, msgs_done, in_flight >>

\* for msg in msgs: the future of chunk c calls populate_collections on its
\* next report, having awaited the one before
BeginReport(f, c) ==
    /\ c \in RunningChunks(f)
    /\ in_flight[f] \cap msgs(c) = {}
    /\ in_flight' = [in_flight EXCEPT
                        ![f] = @ \cup {(c - 1) * file_chunk_size + msgs_done[f][c] + 1}]
    /\ UNCHANGED << pipeline, entities, joinset, control, edge_calls,
                    stream_pc, chunks_taken, msgs_done >>

\* populate_collections (and xadd) of report i returns
EndReport(f, i) ==
    /\ i \in in_flight[f]
    /\ in_flight' = [in_flight EXCEPT ![f] = @ \ {i}]
    /\ msgs_done' = [msgs_done EXCEPT ![f][(i - 1) \div file_chunk_size + 1] = @ + 1]
    /\ UNCHANGED << pipeline, entities, joinset, control, edge_calls, stream_pc, chunks_taken >>

\* for_each_concurrent has ended: process_file returns Ok(())
CloseStream(f) ==
    /\ stream_pc[f] = "open"
    /\ chunks_taken[f] = ChunkCount
    /\ RunningChunks(f) = {}
    /\ stream_pc' = [stream_pc EXCEPT ![f] = "closed"]
    /\ UNCHANGED << pipeline, entities, joinset, control, edge_calls,
                    chunks_taken, msgs_done, in_flight >>

\* ------------------------------------ the JoinSet-based process() (earlier)
\* the timestamps list_all(ft, after_ts, before_ts) can return
ListedTimes(after) == { ts \in 0 .. MaxTs : ts >= after }

FileLists(after) ==
    UNION { [1 .. n -> ListedTimes(after)] : n \in 0 .. MaxListed }

\* the entries of the stream: Err(..) or Ok(buf)
JsStreams == UNION { [1 .. n -> {"Err", "Ok"}] : n \in 0 .. MaxMsgs }

\* `for file_info in file_list.iter() { if file_info.timestamp >= max_ts ..`
RECURSIVE highest_timestamp(_, _, _)
highest_timestamp(file_list, i, acc) ==
    IF i > Len(file_list) THEN acc
    ELSE highest_timestamp(file_list, i + 1,
                           IF file_list[i] >= acc THEN file_list[i] ELSE acc)

must_join_Never(len) == FALSE

\* `if set.len() > self.max_ingest`
must_join(len) == len > max_ingest

\* process(after_ts, before_ts) is called
JsCall ==
    /\ js_pc = "idle"
    /\ \E after \in 0 .. MaxNow : js_after_ts' = after
    /\ js_pc' = "list"
    /\ UNCHANGED << pipeline, entities, control, edge_calls, chunking,
                    js_file_list, js_max_ts, js_stream, js_tasks, js_set, js_result >>

\* list_all(..).await? fails: process() returns the error
JsListError ==
    /\ js_pc = "list"
    /\ js_pc' = "returned"
    /\ js_result' = [kind |-> "Err", ts |-> 0]
    /\ UNCHANGED << pipeline, entities, control, edge_calls, chunking,
                    js_after_ts, js_file_list, js_max_ts, js_stream, js_tasks, js_set >>

\* list_all returns file_list: empty, process() returns Ok(after_ts); else
\* max_ts is computed and the stream of the entries of the files is opened
JsListed ==
    /\ js_pc = "list"
    /\ \E file_list \in FileLists(js_after_ts), stream \in JsStreams :
          /\ js_file_list' = file_list
          /\ IF file_list = << >>
                THEN /\ js_pc' = "returned"
                     /\ js_result' = [kind |-> "Ok", ts |-> js_after_ts]
                     /\ UNCHANGED << js_max_ts, js_stream >>
                ELSE /\ js_pc' = "next"
                     /\ js_max_ts' = highest_timestamp(file_list, 1, js_after_ts)
                     /\ js_stream' = stream
                     /\ UNCHANGED js_result
    /\ UNCHANGED << pipeline, entities, control, edge_calls, chunking,
                    js_after_ts, js_tasks, js_set >>

\* stream.next() yields Err(err): the entry is skipped
JsSkipEntry ==
    /\ js_pc = "next"
    /\ js_stream # << >>
    /\ Head(js_stream) = "Err"
    /\ js_stream' = Tail(js_stream)
    /\ UNCHANGED << pipeline, entities, control, edge_calls, chunking,
                    js_pc, js_after_ts, js_file_list, js_max_ts, js_tasks, js_set, js_result >>

\* stream.next() yields Ok(buf): set.spawn(..), then the test of set.len()
JsSpawn ==
    /\ js_pc = "next"
    /\ js_stream # << >>
    /\ Head(js_stream) = "Ok"
    /\ js_stream' = Tail(js_stream)
    /\ LET id == Cardinality({ i \in 1 .. MaxMsgs : js_tasks[i] # "unspawned" }) + 1
       IN /\ js_tasks' = [js_tasks EXCEPT ![id] = "running"]
          /\ js_set' = js_set \cup {id}
          /\ js_pc' = IF must_join(Cardinality(js_set \cup {id})) THEN "join" ELSE "next"
    /\ UNCHANGED << pipeline, entities, control, edge_calls, chunking,
                    js_after_ts, js_file_list, js_max_ts, js_result >>

\* a spawned task ends: the report decoded and populate_collections returned
\* Ok, or one of the two failed and the error was logged
JsTaskEnds(i) ==
    /\ js_tasks[i] = "running"
    /\ \E outcome \in {"ok", "err"} : js_tasks' = [js_tasks EXCEPT ![i] = outcome]
    /\ UNCHANGED << pipeline, entities, control, edge_calls, chunking,
                    js_pc, js_after_ts, js_file_list, js_max_ts, js_stream, js_set, js_result >>

\* set.join_next().await inside the loop: a task that has ended leaves the set
JsJoinInline(i) ==
    /\ js_pc = "join"
    /\ i \in js_set
    /\ js_tasks[i] \in {"ok", "err"}
    /\ js_set' = js_set \ {i}
    /\ js_pc' = "next"
    /\ UNCHANGED << pipeline, entities, control, edge_calls, chunking,
                    js_after_ts, js_file_list, js_max_ts, js_stream, js_tasks, js_result >>

\* stream.next() yields None: the loop is left
JsStreamEnds ==
    /\ js_pc = "next"
    /\ js_stream = << >>
    /\ js_pc' = "drain"
    /\ UNCHANGED << pipeline, entities, control, edge_calls, chunking,
                    js_after_ts, js_file_list, js_max_ts, js_stream, js_tasks, js_set, js_result >>

\* `while !set.is_empty() { set.join_next().await; }`
JsJoinDrain(i) ==
    /\ js_pc = "drain"
    /\ i \in js_set
    /\ js_tasks[i] \in {"ok", "err"}
    /\ js_set' = js_set \ {i}
    /\ UNCHANGED << pipeline, entities, control, edge_calls, chunking,
                    js_pc, js_after_ts, js_file_list, js_max_ts, js_stream, js_tasks, js_result >>

\* the set is empty: Ok(max_ts)
JsReturn ==
    /\ js_pc = "drain"
    /\ js_set = {}
    /\ js_pc' = "returned"
    /\ js_result' = [kind |-> "Ok", ts |-> js_max_ts]
    /\ UNCHANGED << pipeline, entities, control, edge_calls, chunking,
                    js_after_ts, js_file_list, js_max_ts, js_stream, js_tasks, js_set >>

\* --------------------------------------------------------- specifications
\* process_files and process_file, whatever command called process()
NextFiles ==
    \/ ExcludeDoneAllDone
    \/ ExcludeDoneStart
    \/ \E f \in Files : Spawn(f)
    \/ \E f \in Files : Acquire(f)
    \/ \E f \in Files : InitFileExists(f)
    \/ \E f \in Files : InitFileInsert(f)
    \/ \E f \in Files : StreamFile(f)
    \/ \E f \in Files : ApplyReport(f)
    \/ \E f \in Files : CompleteFile(f)
    \/ ReturnAllOk
    \/ ReturnFailed

\* the tracker loop
Next ==
    \/ TickListError
    \/ TickListEmpty
    \/ TickListed
    \/ NextFiles

Spec == Init /\ [][Next]_vars

\* the tracker loop, every store and feed call returning: a closure of
\* process_files or process() itself that can take its next step takes it
SpecLive == Init /\ [][Next]_vars /\ WF_vars(NextFiles)

\* the tracker loop and the shutdown signal
NextShutdown ==
    \/ Next
    \/ RequestShutdown
    \/ StopLoop

SpecShutdown == Init /\ [][NextShutdown]_vars

\* rehydrate of one day while a second instance works on the same files
NextPeer ==
    \/ RehydrateListError
    \/ RehydrateListEmpty
    \/ RehydrateListed
    \/ NextFiles
    \/ \E k \in Files : PeerInitFile(k)
    \/ \E k \in Files : PeerPassCompleted(k)
    \/ \E k \in Files : PeerPassFailed(k)

SpecPeer == InitRehydrate /\ [][NextPeer]_vars

\* the report tasks of the open files, writing the entity collections
NextEntities ==
    \/ \E t \in Tasks : TakeReport(t)
    \/ \E t \in Tasks : PopulateHotspotBeacon(t)
    \/ \E t \in Tasks : PopulateHotspotWitness(t)
    \/ \E t \in Tasks : PopulateEdge(t)
    \/ \E t \in Tasks : BeaconExists(t)
    \/ \E t \in Tasks : BeaconInsert(t)

SpecEntities == Init /\ [][NextEntities]_vars

\* process_file on the chunks of its stream
NextChunks ==
    \/ \E f \in Streams : OpenStream(f)
    \/ \E f \in Streams : TakeChunk(f)
    \/ \E f \in Streams, c \in 1 .. ChunkCount : BeginReport(f, c)
    \/ \E f \in Streams, i \in 1 .. StreamLen : EndReport(f, i)
    \/ \E f \in Streams : CloseStream(f)

SpecChunks == Init /\ [][NextChunks]_vars

\* Edge::new as a function of the beacon and the witness
NextEdge == EdgeNewCall

SpecEdge == Init /\ [][NextEdge]_vars

\* populate_collections as a function of the store and the report
NextApply == ApplyWhole

SpecApply == Init /\ [][NextApply]_vars

\* one call of the JoinSet-based process() and the tasks it spawns
NextJoinSet ==
    \/ JsCall
    \/ JsListError
    \/ JsListed
    \/ JsSkipEntry
    \/ JsSpawn
    \/ \E i \in 1 .. MaxMsgs : JsTaskEnds(i)
    \/ \E i \in 1 .. MaxMsgs : JsJoinInline(i)
    \/ JsStreamEnds
    \/ \E i \in 1 .. MaxMsgs : JsJoinDrain(i)
    \/ JsReturn

SpecJoinSet == Init /\ [][NextJoinSet]_vars

TypeOK ==
    /\ after_utc \in 0 .. MaxTs
    /\ pc \in {"idle", "listed", "files"}
    /\ driver \in {"tracker", "rehydrate"}
    /\ files \in [Files -> [exists : BOOLEAN, done : BOOLEAN, retries : Nat]]
    /\ result.kind \in {"None", "Ok", "Err"}

\* ------------------------------------------------------ claim vocabulary
\* the last call of process() has returned
RunEnded == pc = "idle" /\ result.kind # "None"

\* process_files has recorded the outcome of the task of file f
Finished(f) == fpc[f] = "finished"

\* file f was marked done before the current run started (single instance)
DoneBefore(f) == files[f].done /\ <<"complete_ok", f>> \notin log

\* t is the least / the greatest timestamp of the files of S
IsMinTs(t, S) == (\E f \in S : Timestamp(f) = t) /\ (\A f \in S : t <= Timestamp(f))
IsMaxTs(t, S) == (\E f \in S : Timestamp(f) = t) /\ (\A f \in S : Timestamp(f) <= t)

\* the failed files of the run whose stored retries are within the budget
FailedWithinBudget == { f \in FailedSet : files[f].retries <= max_retries }

\* ... and whose retry count the filter could read
FailedReadWithinBudget == { f \in FailedWithinBudget : f \notin read_err }

\* file f is pushed to failed_files by this step
FailedNow(f) == CopiesIn(f, failed_files') = CopiesIn(f, failed_files) + 1

\* ----------------------------------------------------------------- C1
\* C1: complete_file(key) is issued for a file only if no report of that file
\* got an error from populate_collections in the run.
C1_CompleteOnlyWithoutWriteError ==
    \A f \in Files : <<"complete_file", f>> \in log => f \notin pop_err

\* ----------------------------------------------------------------- C2
\* C2: a file one of whose reports got a store error from populate_collections
\* ends its pass in failed_files with increment_file_retry called for its key.
C2_WriteErrorFailsFile ==
    \A f \in pop_err :
        Finished(f) => (f \in FailedSet /\ <<"increment_file_retry", f>> \in log)

C4_MaxOverProcessed ==
    (RunEnded /\ file_infos # << >> /\ failed_files = EmptyBag)
        => (result.kind = "Ok" /\ IsMaxTs(result.ts, Range(file_infos)))

\* a run completed files of two different timestamps without a failure
C4_Witness ==
    /\ RunEnded
    /\ failed_files = EmptyBag
    /\ \E f, g \in Range(file_infos) : Timestamp(f) < Timestamp(g)
    /\ \A f \in Range(file_infos) : <<"complete_ok", f>> \in log

C6_ListErrorReturnsAfter ==
    (RunEnded /\ list_res = "err") => result = Ok(after_ts)

\* C6 amended: if the listing fails, process() returns the listing error, which
\* carries no timestamp, before any store operation; it returns no timestamp
\* later than after_ts.
C6_ListErrorPropagates ==
    (RunEnded /\ list_res = "err") => (result.kind = "Err" /\ log = {})

\* a run whose listing failed, after an earlier run had written records
C6_Witness ==
    /\ RunEnded
    /\ list_res = "err"
    /\ \E f \in Files : files[f].exists

\* ----------------------------------------------------------------- C7
\* C7: a tick whose process() call ends with the listing error leaves the
\* stored watermark after_utc where it was.
C7_WindowErrorKeepsWatermark ==
    [][TickListError => after_utc' = after_utc]_vars

\* ----------------------------------------------------------------- C8
\* C8: the window of the tick that follows a run starts at or before the
\* timestamp of every failed file that run kept within the retry budget.
C8_FailedFileReselected ==
    [][StartRun => \A f \in kept : after_ts' <= Timestamp(f)]_vars

\* ----------------------------------------------------------------- C9
\* C9: a record that is done stays, and stays done, in every step of this
\* instance and of a second instance.
C9_DoneNeverReverts ==
    [][\A f \in Files :
          (files[f].exists /\ files[f].done)
              => (files'[f].exists /\ files'[f].done)]_vars

\* init_file and increment_file_retry have run on a record that was done
C9_Witness ==
    \E f \in Files :
        /\ files[f].done
        /\ <<"init_file", f>> \in log
        /\ <<"increment_ok", f>> \in log

BeforeLast == ApplyAll(SubSeq(applied, 1, Len(applied) - 1))

\* the last report applied and the one applied before it
LastReport == applied[Len(applied)][1]
PrevReport == applied[Len(applied) - 1][1]

\* the last two applications were of one and the same report
Repeated == Len(applied) >= 2 /\ LastReport = PrevReport

\* the store had the last two reports been applied in the other order
Swapped ==
    ApplyAll(SubSeq(applied, 1, Len(applied) - 2)
                \o << applied[Len(applied)], applied[Len(applied) - 1] >>)

\* the number of witnesses of report r whose edge has key ek, and of those
\* the number whose value, taken by val from the edge, is v; a dropped report
\* has no edge
RECURSIVE Pairings(_, _, _, _, _)
Pairings(r, i, ek, val(_), v) ==
    IF is_dropped(r) \/ i > Len(Witnesses_try_from(r)) THEN 0
    ELSE LET e == Edge_new(r, Witnesses_try_from(r)[i])
         IN (IF e._key = ek /\ val(e) = v THEN 1 ELSE 0) + Pairings(r, i + 1, ek, val, v)

EdgePairings(r, ek) == Pairings(r, 1, ek, LAMBDA e : 0, 0)

\* the sum of the bucket counts of a histogram
RECURSIVE HistSum(_)
HistSum(h) ==
    IF DOMAIN h = {} THEN 0
    ELSE LET v == CHOOSE x \in DOMAIN h : TRUE
         IN h[v] + HistSum([x \in (DOMAIN h) \ {v} |-> h[x]])

\* the count of bucket v of a histogram, 0 for a bucket it does not have
Bucket(h, v) == IF v \in DOMAIN h THEN h[v] ELSE 0

\* histogram h2 is h with n units added to bucket v and nothing else changed
Gained(h, h2, v, n) ==
    /\ DOMAIN h2 = (DOMAIN h) \cup {v}
    /\ h2[v] = Bucket(h, v) + n
    /\ \A x \in (DOMAIN h) \ {v} : h2[x] = h[x]

\* a hotspot document without its wall-clock timestamp
Timeless(doc) == IF doc.exists THEN [doc EXCEPT !.last_updated_at = 0] ELSE doc

\* this step is the reply of the store to the pending call of task t
Replied(t, position) == tpc[t] = position /\ tpc'[t] # position

\* the files that hold a permit: open between init_file and the end of
\* complete_file or of the recording of the failure
OpenFiles == { f \in Files : HoldsPermit(f) }

\* the failed files of the run that the retry filter read over the budget
Exhausted == { f \in FailedSet : f \notin read_err /\ files[f].retries > max_retries }

\* ---------------------------------------------------------------- C11
\* C11: a beacon document, once written, is never changed or removed; an insert
\* that the store accepts or answers with a conflict, because a racing task has
\* written the document since the beacon_exists check, ends the report with
\* Ok(Some(poc_id)) and one document for the poc_id.
C11_BeaconWrittenOnce ==
    [][/\ \A p \in PocIds : beacons[p].exists => beacons'[p] = beacons[p]
       /\ \A t \in Tasks :
             (Replied(t, "beacon_insert") /\ reply'[t] # "error")
                 => /\ tres'[t] = "OkSome"
                    /\ beacons'[trep[t].poc_id].exists
                    /\ beacon_exists(beacons, trep[t].poc_id)
                          => (reply'[t] = "conflict" /\ beacons' = beacons)]_vars

\* a task passed the beacon_exists check, lost the race for the insert and
\* reported Ok(Some(poc_id))
C11_Witness ==
    \E t \in Tasks :
        /\ tpc[t] = "idle"
        /\ reply[t] = "conflict"
        /\ tres[t] = "OkSome"
        /\ \E p \in PocIds : beacons[p].exists

\* ---------------------------------------------------------------- C12
\* C12: in every step, for every hotspot document, poc_ids is a superset of
\* what it was, last_updated_at is not smaller than it was, and a witness-role
\* upsert leaves poc_ids as it was.
C12_HotspotMonotone ==
    [][\A k \in PubKeys :
          hotspots[k].exists
              => /\ hotspots'[k].exists
                 /\ hotspots[k].poc_ids \subseteq hotspots'[k].poc_ids
                 /\ hotspots'[k].last_updated_at >= hotspots[k].last_updated_at
                 /\ (\E t \in Tasks : Replied(t, "whotspot"))
                       => hotspots'[k].poc_ids = hotspots[k].poc_ids]_vars

\* a hotspot document that carries a poc_id of its beacon role and was also
\* upserted in its witness role, as the far end of an edge
C12_Witness ==
    \E k \in PubKeys :
        /\ hotspots[k].exists
        /\ hotspots[k].poc_ids # {}
        /\ \E ek \in EdgeKeys : edges[ek].exists /\ edges[ek].to = k

\* ---------------------------------------------------------------- C13
\* C13: a hotspot upsert that the store applies to an existing document sets
\* its location, gain and elevation to those of the incoming report.
C13_UpsertOverwritesScalars ==
    [][\A t \in Tasks :
          (/\ tpc[t] \in {"hotspot", "whotspot"}
           /\ tpc'[t] # tpc[t]
           /\ reply'[t] = "ok"
           /\ hotspots[HotspotKey(t)].exists)
              => LET incoming == IF tpc[t] = "hotspot" THEN trep[t] ELSE Witness(t)
                     doc == hotspots'[HotspotKey(t)]
                 IN /\ doc.location = incoming.location
                    /\ doc.gain = incoming.gain
                    /\ doc.elevation = incoming.elevation]_vars

\* ---------------------------------------------------------------- C14
\* C14: for every edge document the bucket counts of snr_hist, of signal_hist
\* and of ingest_latency_hist each sum up to the count of the edge.
C14_HistogramsSumToCount ==
    \A ek \in EdgeKeys :
        edges[ek].exists
            => /\ HistSum(edges[ek].snr_hist) = edges[ek].count
               /\ HistSum(edges[ek].signal_hist) = edges[ek].count
               /\ HistSum(edges[ek].ingest_latency_hist) = edges[ek].count

\* an edge that counts several pairings, spread over two buckets
C14_Witness ==
    \E ek \in EdgeKeys :
        /\ edges[ek].exists
        /\ edges[ek].count >= 2
        /\ Cardinality(DOMAIN edges[ek].snr_hist) = 2

\* ---------------------------------------------------------------- C15
\* C15: an edge upsert that the store applies sets, on an existing key, count
\* to the old count + 1 and adds 1 to the bucket of the incoming value of each
\* histogram (created at 1 if absent), every other bucket staying as it was; on
\* an absent key it inserts count = 1 and one bucket of 1 in each histogram.
C15_EdgeUpsert ==
    [][\A t \in Tasks :
          (Replied(t, "edge") /\ reply'[t] = "ok")
              => LET e == Edge_new(trep[t], Witness(t))
                     old == edges[e._key]
                     new == edges'[e._key]
                 IN /\ new.exists
                    /\ \A ek \in EdgeKeys \ {e._key} : edges'[ek] = edges[ek]
                    /\ IF old.exists
                          THEN /\ new.count = old.count + 1
                               /\ Gained(old.snr_hist, new.snr_hist, e.witness_snr, 1)
                               /\ Gained(old.signal_hist, new.signal_hist, e.witness_signal, 1)
                               /\ Gained(old.ingest_latency_hist, new.ingest_latency_hist,
                                         e.ingest_latency, 1)
                          ELSE /\ new.count = 1
                               /\ new.snr_hist = (e.witness_snr :> 1)
                               /\ new.signal_hist = (e.witness_signal :> 1)
                               /\ new.ingest_latency_hist = (e.ingest_latency :> 1)]_vars

\* an upsert on an existing edge has raised a bucket it already had to 2
C15_Witness ==
    \E ek \in EdgeKeys :
        /\ edges[ek].exists
        /\ \E v \in DOMAIN edges[ek].signal_hist : edges[ek].signal_hist[v] = 2

\* ---------------------------------------------------------------- C16
\* C16 as stated: applying a report a second time leaves the beacons and the
\* hotspots (last_updated_at apart, which does not decrease) as they were and
\* raises by exactly 1 the count of every edge of the report.
C16_SecondApplicationAddsOne ==
    Repeated
        => /\ beacons = BeforeLast[1]
           /\ \A k \in PubKeys :
                 /\ Timeless(hotspots[k]) = Timeless(BeforeLast[2][k])
                 /\ hotspots[k].exists
                       => hotspots[k].last_updated_at >= BeforeLast[2][k].last_updated_at
           /\ \A ek \in EdgeKeys :
                 EdgePairings(LastReport, ek) > 0
                    => edges[ek].count = BeforeLast[3][ek].count + 1

\* C16 amended: applying a report a second time leaves the beacons and the
\* hotspots (last_updated_at apart, which does not decrease) as they were and,
\* for every edge key, raises count by the number of witnesses of the report
\* that map to the key, and each bucket of each histogram by the number of
\* those witnesses that carry the value of the bucket.
C16_SecondApplicationAddsPairings ==
    Repeated
        => /\ beacons = BeforeLast[1]
           /\ \A k \in PubKeys :
                 /\ Timeless(hotspots[k]) = Timeless(BeforeLast[2][k])
                 /\ hotspots[k].exists
                       => hotspots[k].last_updated_at >= BeforeLast[2][k].last_updated_at
           /\ \A ek \in EdgeKeys :
                 IF EdgePairings(LastReport, ek) = 0
                    THEN edges[ek] = BeforeLast[3][ek]
                    ELSE LET old == BeforeLast[3][ek]
                             new == edges[ek]
                         IN /\ new.count = old.count + EdgePairings(LastReport, ek)
                            /\ \A v \in DOMAIN new.snr_hist :
                                  new.snr_hist[v] = Bucket(old.snr_hist, v)
                                      + Pairings(LastReport, 1, ek,
                                                 LAMBDA e : e.witness_snr, v)
                            /\ \A v \in DOMAIN new.signal_hist :
                                  new.signal_hist[v] = Bucket(old.signal_hist, v)
                                      + Pairings(LastReport, 1, ek,
                                                 LAMBDA e : e.witness_signal, v)
                            /\ \A v \in DOMAIN new.ingest_latency_hist :
                                  new.ingest_latency_hist[v] =
                                      Bucket(old.ingest_latency_hist, v)
                                      + Pairings(LastReport, 1, ek,
                                                 LAMBDA e : e.ingest_latency, v)
                            /\ new.from = old.from /\ new.to = old.to
                            /\ new.distance = old.distance

\* a report with two witnesses in one cell was applied twice in a row
C16_Witness ==
    /\ Repeated
    /\ \E ek \in EdgeKeys : EdgePairings(LastReport, ek) = 2 /\ edges[ek].count = 4

\* ---------------------------------------------------------------- C17
\* C17 as stated: the hotspot documents (last_updated_at apart) and the edge
\* documents are the same whichever of the last two reports was applied first.
C17_OrderIndependentDocuments ==
    Len(applied) >= 2
        => /\ \A k \in PubKeys :
                 Timeless(hotspots[k]) = Timeless(Swapped[2][k])
           /\ edges = Swapped[3]

\* C17 amended: whichever of the last two reports was applied first, the same
\* hotspot and edge documents exist, every hotspot has the same poc_ids and
\* every edge the same count, distance and histograms; gain and elevation are
\* those of the report applied last, the location of a hotspot and the
\* endpoints of an edge those of the report applied first.
C17_OrderIndependentMerges ==
    Len(applied) >= 2
        => /\ \A k \in PubKeys :
                 /\ hotspots[k].exists = Swapped[2][k].exists
                 /\ hotspots[k].exists => hotspots[k].poc_ids = Swapped[2][k].poc_ids
           /\ \A ek \in EdgeKeys :
                 /\ edges[ek].exists = Swapped[3][ek].exists
                 /\ edges[ek].exists
                       => /\ edges[ek].count = Swapped[3][ek].count
                          /\ edges[ek].distance = Swapped[3][ek].distance
                          /\ edges[ek].snr_hist = Swapped[3][ek].snr_hist
                          /\ edges[ek].signal_hist = Swapped[3][ek].signal_hist
                          /\ edges[ek].ingest_latency_hist
                                = Swapped[3][ek].ingest_latency_hist

\* two different reports that share the beaconing hotspot and an edge key
\* were applied one after the other
C17_Witness ==
    /\ Len(applied) >= 2
    /\ LastReport.pub_key = PrevReport.pub_key
    /\ LastReport # PrevReport
    /\ \E ek \in EdgeKeys :
          EdgePairings(LastReport, ek) > 0 /\ EdgePairings(PrevReport, ek) > 0

\* ---------------------------------------------------------------- C18
\* C18: a task that takes a report with zero witnesses writes no beacon, no
\* hotspot and no edge and publishes no token; populate_collections returns
\* Ok(None), which does not fail the file, and the task never goes on to a
\* write with that report.
C18_DroppedReport ==
    [][\A t \in Tasks :
          /\ (tpc[t] = "idle" /\ trep'[t] # trep[t] /\ Witnesses_try_from(trep'[t]) = << >>)
                => /\ UNCHANGED << beacons, hotspots, edges, tokens >>
                   /\ tres'[t] = "OkNone"
                   /\ ~report_fails_file(report_outcome(tres'[t]))
          /\ Witnesses_try_from(trep'[t]) = << >> => tpc'[t] = "idle"]_vars

\* a report with zero witnesses was taken and dropped while the store held
\* documents of other reports
C18_Witness ==
    \E t \in Tasks :
        /\ trep[t] \in Reports
        /\ Witnesses_try_from(trep[t]) = << >>
        /\ tres[t] = "OkNone"
        /\ \E k \in PubKeys : hotspots[k].exists

\* ---------------------------------------------------------------- C19
\* C19: the retry filter keeps a failed file whose retries it read exactly
\* when retries <= max_retries; the result of the run is the minimum timestamp
\* over the kept files, or max_ts when none is kept; the failed pass does not
\* mark the file done; and exclude_done_files leaves every listed file that is
\* not done in file_infos, whatever its retries.
C19_RetryExhaustion ==
    /\ [](RunEnded /\ failed_files # EmptyBag
            => /\ \A f \in FailedSet \ read_err :
                     f \in kept <=> files[f].retries <= max_retries
               /\ kept \cap Exhausted = {}
               /\ result.kind = "Ok"
               /\ IF kept = {} THEN result.ts = max_ts ELSE IsMinTs(result.ts, kept)
               /\ \A f \in FailedSet : <<"complete_ok", f>> \notin log)
    /\ [][pc = "listed"
            => \A f \in Range(listing) :
                  ~files[f].done => (f \in Range(file_infos') /\ fpc'[f] = "queued")]_vars

\* a file that entered the run with retries over the budget was processed,
\* failed again and was left out of the watermark, its record not done
C19_Witness ==
    /\ RunEnded
    /\ \E f \in Exhausted :
          /\ files[f].retries >= max_retries + 2
          /\ <<"increment_ok", f>> \in log
          /\ ~files[f].done
          /\ f \notin kept

C25_ShutdownStopsAdmission ==
    [][/\ shutdown_requested
             => /\ \A f \in Files : fpc[f] = "queued" => fpc'[f] = "queued"
                /\ ridx' = ridx
       /\ stopped => UNCHANGED << pipeline, entities >>]_vars

\* ---------------------------------------------------------------- C27
\* the task of file f has gone past the semaphore in the current run
Processed(f) == fpc[f] \in {"init", "insert", "stream", "reports", "complete", "finished"}

Logged(what, f) == <<what, f>> \in log' /\ <<what, f>> \notin log

\* after this step the file goes on as after a report that was written: to
\* its next report or, past the last one, to complete_file, with nothing
\* pushed to failed_files and no record touched
GoesOn(f) ==
    /\ ridx'[f] = ridx[f] + 1
    /\ fpc'[f] = IF ridx'[f] < ReportCount(f) THEN "reports" ELSE "complete"
    /\ failed_files' = failed_files
    /\ files' = files

\* C22: the step in which a report of a file fails to decode or to transform
\* drops the report and lets the file go on with its remaining reports: the
\* file is not pushed to failed_files, its retries are not incremented, and a
\* file that ends in failed_files does so through a failed store call, not
\* through the dropped report.
C22_DroppedReportKeepsFile ==
    [][\A f \in Files :
          /\ Logged("dropped", f) => (GoesOn(f) /\ pop_err' = pop_err)
          /\ (fpc[f] = "reports" /\ fpc'[f] # "reports") => fpc'[f] = "complete"]_vars

\* the first report of a file was dropped, its second report was written and
\* the file was marked done in the same run
C22_Witness ==
    \E f \in Files :
        /\ ReportCount(f) >= 2
        /\ <<"dropped", f>> \in log
        /\ <<"populate", f>> \in log
        /\ <<"complete_ok", f>> \in log
        /\ f \notin FailedSet
        /\ files[f].done /\ files[f].retries = 0

\* ---------------------------------------------------------------- C24
\* C24: the step in which xadd fails lets the file go on as after a report
\* whose token was appended, the report not counting as failed; and a run none
\* of whose files failed returns max_ts with every file of file_infos
\* completed, whether or not an xadd failed in it.
C24_XaddFailureOnlyLogged ==
    /\ [][\A f \in Files :
             Logged("xadd_err", f) => (GoesOn(f) /\ pop_err' = pop_err)]_vars
    /\ []((RunEnded /\ file_infos # << >> /\ failed_files = EmptyBag)
             => /\ result = Ok(max_ts)
                /\ \A f \in Range(file_infos) : <<"complete_ok", f>> \in log)

\* a run in which an xadd failed completed all its files and returned max_ts
C24_Witness ==
    /\ RunEnded
    /\ failed_files = EmptyBag
    /\ result = Ok(max_ts)
    /\ \E f \in Range(file_infos) :
          /\ <<"xadd_err", f>> \in log
          /\ <<"complete_ok", f>> \in log
          /\ f \notin pop_err

\* ---------------------------------------------------------------- C29
\* C29: a file whose stream is open, whose reports are being applied or whose
\* complete_file is due has a checkpoint record, written by an init_file that
\* has returned; a record is created with done = false; a report is taken
\* only from a file in that state; complete_file is issued only when every
\* report of the file has been consumed; and a record that is done exists.
C29_FileLifecycle ==
    /\ [](\A f \in Files :
             /\ (pc = "files" /\ fpc[f] \in {"stream", "reports", "complete"})
                   => (files[f].exists /\ <<"init_file", f>> \in log)
             /\ (<<"populate", f>> \in log \/ <<"dropped", f>> \in log)
                   => (files[f].exists /\ <<"init_file", f>> \in log)
             /\ <<"complete_file", f>> \in log => ridx[f] = ReportCount(f)
             /\ files[f].done => files[f].exists)
    /\ [][\A f \in Files :
             /\ (~files[f].exists /\ files'[f].exists) => ~files'[f].done
             /\ ridx'[f] > ridx[f] => (fpc[f] = "reports" /\ files[f].exists)
             /\ (~files[f].done /\ files'[f].done)
                   => (fpc[f] = "complete" /\ ridx[f] = ReportCount(f))]_vars

\* a file went from no record through init_file and its two reports to done
C29_Witness ==
    \E f \in Files :
        /\ ReportCount(f) >= 2
        /\ <<"insert_file", f>> \in log
        /\ <<"complete_ok", f>> \in log
        /\ ridx[f] = ReportCount(f)
        /\ files[f].done
        /\ \E g \in FailedSet : ~files[g].exists

\* ---------------------------------------------------------------- C23
\* C23: a beacon insert that the store answers with a conflict (1210 / 1200)
\* makes populate_collections return Ok(Some(poc_id)), an outcome that does
\* not fail the file, and leaves the beacons collection as it was.
C23_BeaconConflictIsSuccess ==
    [][\A t \in Tasks :
          (Replied(t, "beacon_insert") /\ reply'[t] = "conflict")
              => /\ tres'[t] = "OkSome"
                 /\ report_outcome(tres'[t]) = "Ok"
                 /\ ~report_fails_file(report_outcome(tres'[t]))
                 /\ beacons' = beacons]_vars

\* two tasks applied reports of one poc_id: one inserted the beacon, the other
\* got the conflict, and both returned Ok(Some(poc_id))
C23_Witness ==
    \E t, u \in Tasks :
        /\ t # u
        /\ tpc[t] = "idle" /\ reply[t] = "conflict" /\ tres[t] = "OkSome"
        /\ tpc[u] = "idle" /\ reply[u] = "ok" /\ tres[u] = "OkSome"
        /\ Cardinality({ p \in PocIds : beacons[p].exists }) = 1

\* ---------------------------------------------------------------- C28
\* C28: the report tasks of two instances writing one store lose nothing: when
\* both have returned Ok(Some(poc_id)) every poc_id they published has its
\* beacon document and is in the poc_ids of a hotspot; an edge upsert that
\* returns without an error has raised the count of its edge by exactly 1;
\* and a conflict with the write of another task does not fail the report.
C28_ConcurrentInstancesLoseNothing ==
    /\ []((\A t \in Tasks : tpc[t] = "idle" /\ tres[t] = "OkSome")
             => \A p \in BagToSet(tokens) :
                   /\ beacons[p].exists
                   /\ \E k \in PubKeys : hotspots[k].exists /\ p \in hotspots[k].poc_ids)
    /\ [][\A t \in Tasks :
             /\ (Replied(t, "edge") /\ reply'[t] = "ok")
                   => LET ek == Edge_new(trep[t], Witness(t))._key
                      IN edges'[ek].count = (IF edges[ek].exists THEN edges[ek].count ELSE 0) + 1
             /\ reply'[t] = "conflict" => tres'[t] # "Err"]_vars

\* ---------------------------------------------------------------- C26
\* C26: the ingest latency of an edge is the witness ingest time minus the
\* beacon ingest time, clamped to zero: it is never negative, and the bucket
\* it opens in ingest_latency_hist has no negative key.
C26_LatencyClampedToZero ==
    \A i \in DOMAIN edge_calls :
        LET c == edge_calls[i]
        IN /\ c.edge.ingest_latency >= 0
           /\ c.edge.ingest_latency =
                 (IF c.witness_ingest >= c.beacon_ingest
                     THEN c.witness_ingest - c.beacon_ingest ELSE 0)
           /\ \A v \in DOMAIN hist_merge(EmptyHist, c.edge.ingest_latency) : v >= 0

\* ---------------------------------------------------------------- C30
\* text s ends with / starts with text t
EndsWith(s, t) == Len(s) >= Len(t) /\ SubSeq(s, Len(s) - Len(t) + 1, Len(s)) = t
StartsWith(s, t) == Len(s) >= Len(t) /\ SubSeq(s, 1, Len(t)) = t

\* C30: the key of an edge ends in witness_unknown when only the witness cell
\* is absent, starts with beacon_unknown_witness_ when only the beacon cell is
\* absent, is beacon_unknown_witness_unknown when both are; and two calls of
\* Edge::new give the same key exactly when they have the same ordered pair
\* of cells, whatever their ingest times.
C30_EdgeKeyOfCellPair ==
    /\ \A i \in DOMAIN edge_calls :
          LET c == edge_calls[i]
              key == c.edge._key
          IN /\ (c.beacon_loc # None /\ c.witness_loc = None)
                   => (EndsWith(key, "witness_unknown") /\ ~StartsWith(key, "beacon_unknown"))
             /\ (c.beacon_loc = None /\ c.witness_loc # None)
                   => (StartsWith(key, "beacon_unknown_witness_")
                          /\ ~EndsWith(key, "witness_unknown"))
             /\ (c.beacon_loc = None /\ c.witness_loc = None)
                   => key = "beacon_unknown_witness_unknown"
             /\ (c.beacon_loc # None /\ c.witness_loc # None)
                   => (~StartsWith(key, "beacon_unknown") /\ ~EndsWith(key, "witness_unknown"))
    /\ \A i, j \in DOMAIN edge_calls :
          (edge_calls[i].edge._key = edge_calls[j].edge._key)
              <=> (/\ edge_calls[i].beacon_loc = edge_calls[j].beacon_loc
                   /\ edge_calls[i].witness_loc = edge_calls[j].witness_loc)

\* two calls on the cells (1, 11) and (11, 1), whose digits run together to
\* the same text, gave two keys
C30_Witness ==
    /\ Len(edge_calls) = 2
    /\ edge_calls[1].beacon_loc = 1 /\ edge_calls[1].witness_loc = 11
    /\ edge_calls[2].beacon_loc = 11 /\ edge_calls[2].witness_loc = 1
    /\ edge_calls[1].edge._key # edge_calls[2].edge._key

\* ---------------------------------------------------------------- C21
\* C21: the reports of a stream are taken in chunks of file_chunk_size, in the
\* order of the stream; of one chunk at most one report is in flight, and its
\* reports before that one are done and none after it is begun; at most
\* max_concurrent_files chunks of a stream run at once, so at most
\* max_concurrent_files of its reports are in flight, and over all streams at
\* most (open streams) x max_concurrent_files.
C21_ChunksBoundInFlight ==
    /\ \A f \in Streams :
          /\ Cardinality(RunningChunks(f)) <= max_concurrent_files
          /\ Cardinality(in_flight[f]) <= max_concurrent_files
          /\ in_flight[f] # {} => stream_pc[f] = "open"
          /\ \A c \in 1 .. ChunkCount :
                /\ Cardinality(msgs(c)) <= file_chunk_size
                /\ c < ChunkCount => Cardinality(msgs(c)) = file_chunk_size
                /\ Cardinality(in_flight[f] \cap msgs(c)) <= 1
                /\ c > chunks_taken[f] => (msgs_done[f][c] = 0 /\ in_flight[f] \cap msgs(c) = {})
                /\ \A i \in in_flight[f] \cap msgs(c) :
                      i = (c - 1) * file_chunk_size + msgs_done[f][c] + 1
    /\ Cardinality({ p \in Streams \X (1 .. StreamLen) : p[2] \in in_flight[p[1]] })
          <= Cardinality({ f \in Streams : stream_pc[f] = "open" }) * max_concurrent_files

\* a stream with max_concurrent_files reports in flight, one of each running
\* chunk, and a chunk left that has to wait
C21_Witness ==
    \E f \in Streams :
        /\ Cardinality(in_flight[f]) = max_concurrent_files
        /\ Cardinality(RunningChunks(f)) = max_concurrent_files
        /\ chunks_taken[f] < ChunkCount
        /\ \E c \in RunningChunks(f) : msgs_done[f][c] > 0

\* ---------------------------------------------------------------- C31
\* C31: when the cell of the beacon or of the witness is absent, the distance
\* on the witness inside the Beacon and the distance of the Edge are exactly 0;
\* when both cells are known both are the distance of the two cells, computed
\* by the transform from the coordinates of the cells.
C31_DistanceDefaultsToZero ==
    \A i \in DOMAIN edge_calls :
        LET c == edge_calls[i]
            known == c.beacon_loc # None /\ c.witness_loc # None
            d == IF c.beacon_loc >= c.witness_loc THEN c.beacon_loc - c.witness_loc
                                                  ELSE c.witness_loc - c.beacon_loc
        IN /\ Len(c.beacon.witnesses) = 1
           /\ c.beacon.witnesses[1].distance = (IF known THEN d ELSE 0)
           /\ c.edge.distance = (IF known THEN d ELSE 0)

\* a call with a known beacon cell and no witness cell, and a call with two
\* known cells that are apart
C31_Witness ==
    /\ Len(edge_calls) = 2
    /\ edge_calls[1].beacon_loc = 11 /\ edge_calls[1].witness_loc = None
    /\ edge_calls[1].edge.distance = 0
    /\ edge_calls[2].beacon_loc = 11 /\ edge_calls[2].witness_loc = 1
    /\ edge_calls[2].edge.distance = 10
    /\ edge_calls[2].beacon.witnesses[1].distance = 10

\* ---------------------------------------------------------------- C32
\* C32: a file whose task has ended either had complete_file succeed and is
\* not in failed_files, or is in failed_files exactly once with
\* increment_file_retry attempted, never both; a complete_file error puts the
\* file in failed_files; increment_file_retry is attempted in the step that
\* pushes the file and in no other, so once per file and run; a push of one
\* task leaves the entries of the other tasks in place; and process_files
\* returns only when every admitted file has ended.
C32_ExactlyOneOutcome ==
    /\ [](\A f \in Files :
            /\ CopiesIn(f, failed_files) <= 1
            /\ Finished(f)
                  => \/ /\ <<"complete_ok", f>> \in log
                        /\ f \notin FailedSet
                        /\ <<"increment_file_retry", f>> \notin log
                     \/ /\ <<"complete_ok", f>> \notin log
                        /\ CopiesIn(f, failed_files) = 1
                        /\ <<"increment_file_retry", f>> \in log
            /\ (<<"complete_file", f>> \in log /\ <<"complete_ok", f>> \notin log)
                  => f \in FailedSet
            /\ (f \in FailedSet \/ <<"increment_file_retry", f>> \in log) => Finished(f)
            /\ (RunEnded /\ f \in Range(file_infos)) => Finished(f))
    /\ [][pc = "files"
            => \A f \in Files :
                  /\ (<<"increment_file_retry", f>> \in log' \ log) <=> FailedNow(f)
                  /\ FailedNow(f) => (~Finished(f) /\ fpc'[f] = "finished")
                  /\ CopiesIn(f, failed_files') >= CopiesIn(f, failed_files)]_vars

\* a run of three files ended: one was completed, one failed before
\* complete_file, one failed at complete_file
C32_Witness ==
    /\ RunEnded
    /\ Cardinality(Range(file_infos)) = 3
    /\ \E f, g, h \in Range(file_infos) :
          /\ <<"complete_ok", f>> \in log /\ f \notin FailedSet
          /\ g \in FailedSet /\ <<"complete_file", g>> \notin log
          /\ h \in FailedSet /\ <<"complete_file", h>> \in log
          /\ result.kind = "Ok"

\* ---------------------------------------------------------------- C33
\* C33: when a run had failed files and the retry filter removed every one of
\* them (its retries are over max_retries, or its retry count could not be
\* read), process() returns the greatest timestamp of the files it processed,
\* the same as a run without a failure, and the watermark of the tracker is
\* then at or past the timestamp of every failed file.
C33_AllFailedFilteredReturnsMax ==
    (RunEnded /\ failed_files # EmptyBag /\ kept = {})
        => /\ \A f \in FailedSet : f \in read_err \/ files[f].retries > max_retries
           /\ result = Ok(max_ts)
           /\ IsMaxTs(result.ts, Range(file_infos))
           /\ \A f \in FailedSet : after_utc >= Timestamp(f)

\* two files failed, one whose retry count could not be read and one whose
\* retries are over the budget, a later file was completed, and the run
\* returned the timestamp of the later file
C33_Witness ==
    /\ RunEnded
    /\ kept = {}
    /\ \E f, g \in FailedSet, h \in Range(file_infos) :
          /\ f \in read_err
          /\ g \notin read_err /\ files[g].retries > max_retries
          /\ <<"complete_ok", h>> \in log
          /\ Timestamp(h) > Timestamp(f) /\ Timestamp(h) > Timestamp(g)
          /\ result = Ok(Timestamp(h))

\* ---------------------------------------------------------------- C34
\* the step in which the process() call of a tick returns
TickEnds ==
    TickListError \/ TickListEmpty \/ ExcludeDoneAllDone \/ ReturnAllOk \/ ReturnFailed

\* C34: in the tracker loop after_utc never decreases; the window of every
\* tick starts at the previous after_utc + interval; and when the process()
\* call of the tick returns, with a timestamp or with an error, after_utc
\* becomes at least the previous after_utc + interval.
C34_WatermarkAdvancesEveryTick ==
    [][/\ after_utc' >= after_utc
       /\ StartRun => after_ts' = after_utc + interval
       /\ pc # "idle" => (after_ts = after_utc + interval /\ after_ts' = after_ts)
       /\ TickEnds => /\ after_utc' >= after_utc + interval
                      /\ after_utc' >= after_ts'
                      /\ result'.kind = "Err" => after_utc' = after_utc + interval
       /\ ~TickEnds => after_utc' = after_utc]_vars

\* the second tick ended with the listing error, after the first had written
\* records, and the watermark stands at the start of the window of that tick
C34_Witness ==
    /\ RunEnded
    /\ result.kind = "Err"
    /\ after_ts = 2 * interval
    /\ after_utc = after_ts
    /\ \E f \in Files : files[f].exists

\* ---------------------------------------------------------------- C35
\* C35: with max_processing_capacity below max_concurrent_files and every
\* call returning, a process() call that has started process_files returns,
\* and when process() has returned no closure holds a permit or waits at the
\* semaphore for one.
C35_ProcessFilesTerminates ==
    /\ [](pc = "files" => <>(pc = "idle"))
    /\ [](pc = "idle" => \A f \in Files : ~HoldsPermit(f) /\ fpc[f] # "acquire")

\* a run over more files than there are permits has ended, every file
\* finished, one of them failed
C35_Witness ==
    /\ RunEnded
    /\ max_processing_capacity < max_concurrent_files
    /\ Cardinality(Range(file_infos)) > max_processing_capacity
    /\ \A f \in Range(file_infos) : Finished(f) /\ ~HoldsPermit(f)
    /\ Cardinality(FailedSet) = 1

\* ---------------------------------------------------------------- C36
\* the documents a beacon document refers to are in the store
Referenced(b) ==
    /\ hotspots[b.pub_key].exists
    /\ \A i \in DOMAIN b.witnesses :
          /\ hotspots[b.witnesses[i].pub_key].exists
          /\ edges[witness_edge_key(b.location, b.witnesses[i].location)].exists

\* C36: whenever a beacon document exists, the hotspot documents of its
\* beaconing hotspot and of each of its witnesses exist and so does the edge
\* document of each of its (beacon cell, witness cell) pairs; within one
\* report the beacon is inserted after the loop over the witnesses has ended,
\* as the last write, and the edge upsert of a witness follows the hotspot
\* upsert of that witness.
C36_BeaconImpliesHotspotsAndEdges ==
    /\ [](\A p \in PocIds : beacons[p].exists => Referenced(beacons[p]))
    /\ [][\A t \in Tasks :
             /\ tpc'[t] = "edge"
                   => (tpc[t] \in {"whotspot", "edge"} /\ twi'[t] = twi[t])
             /\ (tpc'[t] = "whotspot" /\ tpc[t] # "whotspot")
                   => tpc[t] \in {"hotspot", "edge"}
             /\ (tpc'[t] \in {"beacon_exists", "beacon_insert"} /\ tpc'[t] # tpc[t])
                   => twi'[t] = Len(Witnesses_try_from(trep[t])) + 1
             /\ tpc[t] = "beacon_insert" => tpc'[t] \in {"beacon_insert", "idle"}
             /\ (tpc[t] = "beacon_insert" /\ tpc'[t] = "idle")
                   => UNCHANGED << hotspots, edges >>
             /\ (tpc[t] # "beacon_insert" /\ \A u \in Tasks : tpc[u] # "beacon_insert")
                   => beacons' = beacons]_vars

\* ---------------------------------------------------------------- C37
\* C37: when populate_collections returns Ok(Some(poc_id)) for a report, the
\* hotspot document of the beaconing hotspot exists and has poc_id in its
\* poc_ids, also when the upsert of that hotspot was answered with 1200 or
\* 1210.
C37_ReturnedPocIdIsOnHotspot ==
    [][\A t \in Tasks :
          (tpc[t] # "idle" /\ tpc'[t] = "idle" /\ tres'[t] = "OkSome")
              => /\ hotspots'[trep[t].pub_key].exists
                 /\ trep[t].poc_id \in hotspots'[trep[t].pub_key].poc_ids]_vars

\* ---------------------------------------------------------------- C38
\* C38: a token is appended to the stream only in the step in which
\* populate_collections returns Ok(Some(poc_id)) for a report of that poc_id,
\* one token per return; by then no call of the report was answered with an
\* error other than 1200 / 1210, the beacon document of poc_id is in the
\* store and so is the edge of each witness of the report. A report that is
\* dropped or whose populate_collections returns an error appends nothing.
C38_TokenOnlyAfterOkSome ==
    [][/\ \A p \in PocIds :
             CopiesIn(p, tokens') # CopiesIn(p, tokens)
                 => \E t \in Tasks :
                       /\ tpc[t] \in {"beacon_exists", "beacon_insert"}
                       /\ tpc'[t] = "idle"
                       /\ tres'[t] = "OkSome"
                       /\ reply'[t] # "error"
                       /\ trep[t].poc_id = p
                       /\ CopiesIn(p, tokens') = CopiesIn(p, tokens) + 1
                       /\ beacons'[p].exists
                       /\ \A i \in DOMAIN Witnesses_try_from(trep[t]) :
                             edges'[Edge_new(trep[t], Witnesses_try_from(trep[t])[i])._key].exists
       /\ (\E t \in Tasks : tres'[t] # tres[t] /\ tres'[t] \in {"OkNone", "Err"})
             => tokens' = tokens]_vars

\* a report was delivered twice: one beacon document, found by the second
\* delivery, and two tokens of its poc_id
C38_Witness ==
    \E p \in PocIds :
        /\ CopiesIn(p, tokens) = 2
        /\ beacons[p].exists
        /\ \A t \in Tasks : tpc[t] = "idle" /\ tres[t] = "OkSome" /\ reply[t] = "ok"
        /\ \A q \in PocIds \ {p} : ~beacons[q].exists
        /\ \E ek \in EdgeKeys : edges[ek].exists /\ edges[ek].count = 2

\* ---------------------------------------------------------------- C39
\* C39: a task that takes a report returns Ok(None) at once, with the store
\* untouched, exactly when the report has no selected witness, however many
\* unselected witnesses it has; the beacon document a task inserts holds the
\* selected witnesses of its report, marked selected, followed by the
\* unselected ones, marked unselected, so every beacon of the store has a
\* selected witness.
C39_DroppedIffNoSelectedWitness ==
    /\ [](\A p \in PocIds :
            beacons[p].exists
                => \E i \in DOMAIN beacons[p].witnesses : beacons[p].witnesses[i].selected)
    /\ [][\A t \in Tasks :
             /\ (tpc[t] = "idle" /\ trep'[t] # trep[t])
                   => /\ (trep'[t].selected_witnesses = << >>)
                            <=> (tpc'[t] = "idle" /\ tres'[t] = "OkNone")
                      /\ trep'[t].selected_witnesses = << >>
                            => UNCHANGED << beacons, hotspots, edges, tokens >>
             /\ (/\ tpc[t] = "beacon_insert" /\ tpc'[t] = "idle"
                 /\ beacons'[trep[t].poc_id] # beacons[trep[t].poc_id])
                   => LET b == beacons'[trep[t].poc_id]
                          sel == trep[t].selected_witnesses
                          unsel == trep[t].unselected_witnesses
                      IN /\ Len(b.witnesses) = Len(sel) + Len(unsel)
                         /\ \A i \in DOMAIN sel :
                               /\ b.witnesses[i].selected
                               /\ b.witnesses[i].pub_key = sel[i].pub_key
                         /\ \A j \in DOMAIN unsel :
                               /\ ~b.witnesses[Len(sel) + j].selected
                               /\ b.witnesses[Len(sel) + j].pub_key = unsel[j].pub_key]_vars

\* a beacon with a selected and an unselected witness is in the store, and a
\* report with one unselected witness and no selected one was dropped
C39_Witness ==
    /\ \E p \in PocIds :
          /\ beacons[p].exists
          /\ \E i, j \in DOMAIN beacons[p].witnesses :
                beacons[p].witnesses[i].selected /\ ~beacons[p].witnesses[j].selected
    /\ \E t \in Tasks :
          /\ tpc[t] = "idle"
          /\ tres[t] = "OkNone"
          /\ trep[t].selected_witnesses = << >>
          /\ trep[t].unselected_witnesses # << >>

\* ---------------------------------------------------------------- C40
\* C40: in the JoinSet-based process() the set never holds more than
\* max_ingest + 1 tasks and holds at most max_ingest whenever the caller is
\* not between a spawn and its inline join; when the call has returned the
\* set is empty and no spawned task is still running, a task leaving the set
\* only after it has ended; and a call that listed
\* files returns Ok with the greatest timestamp of the list, whatever the
\* tasks and the stream entries ended with.
C40_JoinSetBounded ==
    /\ Cardinality(js_set) <= max_ingest + 1
    /\ js_pc # "join" => Cardinality(js_set) <= max_ingest
    /\ \A i \in 1 .. MaxMsgs :
          /\ i \in js_set => js_tasks[i] # "unspawned"
          /\ (js_tasks[i] # "unspawned" /\ i \notin js_set) => js_tasks[i] \in {"ok", "err"}
    /\ js_pc = "returned"
          => /\ js_set = {}
             /\ \A i \in 1 .. MaxMsgs : js_tasks[i] # "running"
             /\ js_file_list # << >>
                   => /\ js_result.kind = "Ok"
                      /\ \E i \in DOMAIN js_file_list : js_result.ts = js_file_list[i]
                      /\ \A i \in DOMAIN js_file_list : js_result.ts >= js_file_list[i]

\* the call returned the greatest listed timestamp, listed first, after more
\* than max_ingest + 1 tasks were spawned, one of them ending with an error
C40_Witness ==
    /\ js_pc = "returned"
    /\ js_result.kind = "Ok"
    /\ Len(js_file_list) = 2
    /\ js_file_list[1] > js_file_list[2]
    /\ js_result.ts = js_file_list[1]
    /\ js_result.ts > js_after_ts
    /\ \E i, j \in 1 .. MaxMsgs : js_tasks[i] = "err" /\ js_tasks[j] = "ok"
    /\ Cardinality({ i \in 1 .. MaxMsgs : js_tasks[i] # "unspawned" }) > max_ingest + 1

====
